---- MODULE Spec2Model ----
(***************************************************************************)
(* A model of the bytecode-assembly context of move-ir-to-bytecode         *)
(* (src/external-crates/move/crates/move-ir-to-bytecode/src/context.rs):   *)
(* the interning pools, the dependency views and the Context's declare,    *)
(* import and resolve operations.                                          *)
(*                                                                         *)
(* A pool (HashMap<K, TableIndex>) is the record [fill, map]: map holds    *)
(* the entries whose keys the model names, and fill counts further entries *)
(* with keys the model never names again, which hold the indices           *)
(* 0 .. fill-1 (they were interned first).  The pool's len() is            *)
(* fill + Cardinality(DOMAIN map).                                         *)
(***************************************************************************)
EXTENDS Integers, Sequences, FiniteSets, TLC

VARIABLES
    ctx,          \* the Context: one field per field of struct Context
    last,         \* the last Context operation, its arguments and its result
    pc,           \* "open", "done" (consumed by materialize_pools), "aborted" (panic)
    nops,         \* the number of operations performed on the Context
    dth,          \* per qualified type name, the history of its resolutions
    materialized, \* what materialize_pools returned
    handed,       \* the labels requested in the function being compiled
    owned,        \* SpecStored: the heap, the value in flight and a Dependency Store
    viewed,       \* SpecView: a compiled module, its view and the last query of it
    taken,        \* the Dependency Stores the caller holds after take_dependencies
    pool,         \* SpecPool: one HashMap<K, TableIndex> driven through get_or_add_item
    plast,        \* SpecPool: the last get_or_add_item call and what it returned
    phist         \* SpecPool: per key, the history of the calls made with it

cvars == <<ctx, last, pc, nops, dth, materialized, handed, owned, viewed, taken>>
pvars == <<pool, plast, phist>>
vars == <<ctx, last, pc, nops, dth, materialized, handed, owned, viewed, taken,
         pool, plast, phist>>

\* pub const TABLE_MAX_SIZE: usize = u16::max_value() as usize;
TABLE_MAX_SIZE == 65535

\* TableIndex is u16: `len as TableIndex` truncates to 16 bits
TableIndexWidth == 65536

NoIdx == -1

EmptyPool == [fill |-> 0, map |-> <<>>]

\* m.len()
PoolLen(m) == m.fill + Cardinality(DOMAIN m.map)

\* m.contains_key(k)
PoolContains(m, k) == k \in DOMAIN m.map

\* the set of table indices a pool uses, with multiplicity lost
PoolIndices(m) == (0 .. (m.fill - 1)) \cup {m.map[k] : k \in DOMAIN m.map}

\* get_or_add_item with the ceiling check of the definition tables (`>`)
get_or_add_item_gt(m, k) ==
    IF PoolContains(m, k)
    THEN [ok |-> TRUE, idx |-> m.map[k], m |-> m]
    ELSE LET len == PoolLen(m) IN
         IF len > TABLE_MAX_SIZE
         THEN [ok |-> FALSE, idx |-> NoIdx, m |-> m]
         ELSE [ok |-> TRUE, idx |-> len % TableIndexWidth,
               m |-> [m EXCEPT !.map = (k :> (len % TableIndexWidth)) @@ @]]

\* get_or_add_item without the contains_key test: insert overwrites the index
get_or_add_item_nodedup(m, k) ==
    LET len == PoolLen(m) IN
    IF len >= TABLE_MAX_SIZE
    THEN [ok |-> FALSE, idx |-> NoIdx, m |-> m]
    ELSE [ok |-> TRUE, idx |-> len % TableIndexWidth,
          m |-> [m EXCEPT !.map = (k :> (len % TableIndexWidth)) @@ @]]

\* get_or_add_item that inserts first and rejects afterwards
get_or_add_item_latecheck(m, k) ==
    IF PoolContains(m, k)
    THEN [ok |-> TRUE, idx |-> m.map[k], m |-> m]
    ELSE LET len == PoolLen(m)
             ins == [m EXCEPT !.map = (k :> (len % TableIndexWidth)) @@ @]
         IN  IF len >= TABLE_MAX_SIZE
             THEN [ok |-> FALSE, idx |-> NoIdx, m |-> ins]
             ELSE [ok |-> TRUE, idx |-> len % TableIndexWidth, m |-> ins]

\* get_or_add_item_macro!, get_or_add_item, get_or_add_item_ref:
\* the index of k in m, inserting k at index m.len() when it is absent and
\* the table holds fewer than TABLE_MAX_SIZE entries.
get_or_add_item(m, k) ==
    IF PoolContains(m, k)
    THEN [ok |-> TRUE, idx |-> m.map[k], m |-> m]
    ELSE LET len == PoolLen(m) IN
         IF len >= TABLE_MAX_SIZE
         THEN [ok |-> FALSE, idx |-> NoIdx, m |-> m]
         ELSE [ok |-> TRUE, idx |-> len % TableIndexWidth,
               m |-> [m EXCEPT !.map = (k :> (len % TableIndexWidth)) @@ @]]

(***************************************************************************)
(* Values of the file format.  A pool index i of the source is position    *)
(* i + 1 of the modelling sequence.                                        *)
(*   ModuleIdent            [address, name]                                *)
(*   ModuleHandle           [address, name]        (pool indices)          *)
(*   DataTypeHandle         [module, name, abilities, type_parameters]     *)
(*   FunctionHandle         [module, name, parameters, return_,            *)
(*                           type_parameters]                              *)
(*   FunctionSignature      [return_, parameters, type_parameters]         *)
(*   QualifiedDataTypeIdent [module, name]                                 *)
(*   SignatureToken         <<"Bool">>, <<"U64">>, <<"TypeParameter", n>>, *)
(*                          <<"Vector", t>>, <<"Reference", t>>,           *)
(*                          <<"MutableReference", t>>, <<"DataType", i>>,  *)
(*                          <<"DataTypeInstantiation", i, <<t, ...>>>>     *)
(***************************************************************************)

\* ModuleName::module_self()
SELF_MODULE_NAME == "Self"

IdD  == [address |-> 1, name |-> "D"]
IdD2 == [address |-> 2, name |-> "D"]
IdE  == [address |-> 1, name |-> "E"]
\* the module being compiled
IdM  == [address |-> 2, name |-> "M"]

\* The compiled module 1::D.  It declares S {copy, drop} and U {drop}, uses
\* 1::E::U<T>, and defines f(vector<&S>) and g(E::U<u64>, &mut S): vector<&S>.
ModD ==
    [self_module_handle_idx |-> 0,
     address_identifiers |-> <<1>>,
     identifiers |-> <<"D", "S", "f", "E", "U", "g">>,
     module_handles |-> <<[address |-> 0, name |-> 0], [address |-> 0, name |-> 3]>>,
     data_type_handles |->
        <<[module |-> 0, name |-> 1, abilities |-> {"copy", "drop"}, type_parameters |-> <<>>],
          [module |-> 1, name |-> 4, abilities |-> {"key"}, type_parameters |-> <<{}>>],
          [module |-> 0, name |-> 4, abilities |-> {"drop"}, type_parameters |-> <<>>]>>,
     signatures |->
        << <<>>,
           << <<"Vector", <<"Reference", <<"DataType", 0>>>>>> >>,
           << <<"DataTypeInstantiation", 1, << <<"U64">> >>>>,
              <<"MutableReference", <<"DataType", 0>>>> >> >>,
     function_handles |->
        <<[module |-> 0, name |-> 2, parameters |-> 1, return_ |-> 0, type_parameters |-> <<>>],
          [module |-> 0, name |-> 5, parameters |-> 2, return_ |-> 1, type_parameters |-> <<>>]>>]

\* The compiled module 1::E.  It declares U<T> {key}, uses 1::D::S and
\* 2::D::S, defines k(1::D::S) and refers to the function f of 1::D.
ModE ==
    [self_module_handle_idx |-> 0,
     address_identifiers |-> <<1, 2>>,
     identifiers |-> <<"E", "U", "D", "S", "k", "f">>,
     module_handles |-> <<[address |-> 0, name |-> 0], [address |-> 0, name |-> 2],
                          [address |-> 1, name |-> 2]>>,
     data_type_handles |->
        <<[module |-> 1, name |-> 3, abilities |-> {"copy", "drop"}, type_parameters |-> <<>>],
          [module |-> 2, name |-> 3, abilities |-> {"store"}, type_parameters |-> <<>>],
          [module |-> 0, name |-> 1, abilities |-> {"key"}, type_parameters |-> <<{}>>]>>,
     signatures |-> << <<>>, << <<"DataType", 0>> >> >>,
     function_handles |->
        <<[module |-> 0, name |-> 4, parameters |-> 1, return_ |-> 0, type_parameters |-> <<>>],
          [module |-> 1, name |-> 5, parameters |-> 0, return_ |-> 0, type_parameters |-> <<>>]>>]

IdF == [address |-> 1, name |-> "F"]

\* The compiled module 1::F, a corrupt dependency.  Its third module handle
\* has an address index outside the address pool; it uses 1::D::S and the S
\* of that third module, and defines h(1::D::S), i(type handle 5, outside the
\* type-handle pool) and j(vector<S of the third module>).
ModF ==
    [self_module_handle_idx |-> 0,
     address_identifiers |-> <<1>>,
     identifiers |-> <<"F", "h", "D", "S", "i", "j">>,
     module_handles |-> <<[address |-> 0, name |-> 0], [address |-> 0, name |-> 2],
                          [address |-> 3, name |-> 2]>>,
     data_type_handles |->
        <<[module |-> 1, name |-> 3, abilities |-> {"copy", "drop"}, type_parameters |-> <<>>],
          [module |-> 2, name |-> 3, abilities |-> {"store"}, type_parameters |-> <<>>]>>,
     signatures |->
        << <<>>,
           << <<"DataType", 0>> >>,
           << <<"DataType", 5>> >>,
           << <<"Vector", <<"DataType", 1>>>> >> >>,
     function_handles |->
        <<[module |-> 0, name |-> 1, parameters |-> 1, return_ |-> 0, type_parameters |-> <<>>],
          [module |-> 0, name |-> 4, parameters |-> 2, return_ |-> 0, type_parameters |-> <<>>],
          [module |-> 0, name |-> 5, parameters |-> 3, return_ |-> 0, type_parameters |-> <<>>]>>]

\* another compiled module whose self handle is 1::D: it defines f only
ModD1 == [ModD EXCEPT !.function_handles = <<ModD.function_handles[1]>>]

\* the compiled modules a compilation may be given, by name
DepModule(tag) ==
    IF tag = "ModD" THEN ModD ELSE IF tag = "ModD1" THEN ModD1
    ELSE IF tag = "ModF" THEN ModF ELSE ModE

\* slice.get(i)
At(seq, i) ==
    IF i >= 0 /\ i < Len(seq) THEN [some |-> TRUE, v |-> seq[i + 1]]
    ELSE [some |-> FALSE, v |-> NoIdx]

\* CompiledModule::self_id(): address() and name() of the module's self handle
ModuleSelfId(dep) ==
    LET mh == dep.module_handles[dep.self_module_handle_idx + 1]
    IN  [address |-> dep.address_identifiers[mh.address + 1],
         name |-> dep.identifiers[mh.name + 1]]

\* the first loop of CompiledDependencyView::new: get_or_add_item on
\* (module name, type name), handle by handle in pool order
RECURSIVE ViewStructs(_, _, _)
ViewStructs(dep, i, acc) ==
    IF i > Len(dep.data_type_handles) THEN acc
    ELSE LET shandle == dep.data_type_handles[i]
             mhandle == dep.module_handles[shandle.module + 1]
             mname == dep.identifiers[mhandle.name + 1]
             sname == dep.identifiers[shandle.name + 1]
         IN  ViewStructs(dep, i + 1, get_or_add_item(acc, <<mname, sname>>).m)

\* the second loop: functions.insert(fname, idx) for the handles whose module
\* is the self handle
RECURSIVE ViewFunctions(_, _, _)
ViewFunctions(dep, i, acc) ==
    IF i > Len(dep.function_handles) THEN acc
    ELSE LET fhandle == dep.function_handles[i]
             fname == dep.identifiers[fhandle.name + 1]
         IN  ViewFunctions(dep, i + 1,
                 IF fhandle.module = dep.self_module_handle_idx
                 THEN (fname :> (i - 1)) @@ acc
                 ELSE acc)

\* CompiledDependencyView::new
CompiledDependencyView_new(dep) ==
    [structs |-> ViewStructs(dep, 1, EmptyPool).map,
     functions |-> ViewFunctions(dep, 1, <<>>),
     module_pool |-> dep.module_handles,
     data_type_pool |-> dep.data_type_handles,
     function_pool |-> dep.function_handles,
     identifiers |-> dep.identifiers,
     address_identifiers |-> dep.address_identifiers,
     signature_pool |-> dep.signatures]

\* source_struct_info that reads the address without the bounds test and
\* takes what lies there (here: the first address of the pool)
source_struct_info_unchecked_address(view, idx) ==
    LET none == [some |-> FALSE, panic |-> FALSE, ident |-> IdD, name |-> ""]
        handle == At(view.data_type_pool, idx)
    IN  IF ~handle.some THEN none ELSE
        LET module_handle == At(view.module_pool, handle.v.module) IN
        IF ~module_handle.some THEN none ELSE
        LET address == At(view.address_identifiers, module_handle.v.address) IN
        LET module == At(view.identifiers, module_handle.v.name) IN
        IF ~module.some THEN none ELSE
        IF module.v = SELF_MODULE_NAME THEN [none EXCEPT !.panic = TRUE] ELSE
        LET name == At(view.identifiers, handle.v.name) IN
        IF ~name.some THEN none ELSE
        [some |-> TRUE, panic |-> FALSE,
         ident |-> [address |-> IF address.some THEN address.v
                                ELSE view.address_identifiers[1],
                    name |-> module.v],
         name |-> name.v]

\* CompiledDependencyView::source_struct_info: Some((ident, name)), None, or
\* the failed assertion module != Self
source_struct_info(view, idx) ==
    LET none == [some |-> FALSE, panic |-> FALSE, ident |-> IdD, name |-> ""]
        handle == At(view.data_type_pool, idx)
    IN  IF ~handle.some THEN none ELSE
        LET module_handle == At(view.module_pool, handle.v.module) IN
        IF ~module_handle.some THEN none ELSE
        LET address == At(view.address_identifiers, module_handle.v.address) IN
        IF ~address.some THEN none ELSE
        LET module == At(view.identifiers, module_handle.v.name) IN
        IF ~module.some THEN none ELSE
        IF module.v = SELF_MODULE_NAME THEN [none EXCEPT !.panic = TRUE] ELSE
        LET name == At(view.identifiers, handle.v.name) IN
        IF ~name.some THEN none ELSE
        [some |-> TRUE, panic |-> FALSE,
         ident |-> [address |-> address.v, name |-> module.v], name |-> name.v]

\* CompiledDependencyView::data_type_handle
View_data_type_handle(view, module, name) ==
    IF <<module, name>> \in DOMAIN view.structs
    THEN At(view.data_type_pool, view.structs[<<module, name>>])
    ELSE [some |-> FALSE, v |-> NoIdx]

\* CompiledDependencyView::function_signature: Some(signature), None, or an
\* out-of-range index into signature_pool (panic)
View_function_signature(view, name) ==
    LET none == [some |-> FALSE, panic |-> FALSE, v |-> NoIdx] IN
    IF name \notin DOMAIN view.functions THEN none ELSE
    LET fh == At(view.function_pool, view.functions[name]) IN
    IF ~fh.some THEN none ELSE
    LET parameters == At(view.signature_pool, fh.v.parameters)
        return_ == At(view.signature_pool, fh.v.return_)
    IN  IF ~parameters.some \/ ~return_.some THEN [none EXCEPT !.panic = TRUE]
        ELSE [some |-> TRUE, panic |-> FALSE,
              v |-> [parameters |-> parameters.v, return_ |-> return_.v,
                     type_parameters |-> fh.v.type_parameters]]

(***************************************************************************)
(* The Context.  Every method is an operator from the Context c (and the   *)
(* arguments) to a result [ok, err, val, c]: c is the Context the call     *)
(* leaves behind, also when it returns Err, since a method that bails      *)
(* keeps what it had written to &mut self.  err names the bail! message:   *)
(*   "TableOverflow"       Max table size reached! / too many functions    *)
(*   "UnboundAlias"        Unbound module alias                            *)
(*   "MissingImport"       Missing import for module                       *)
(*   "DependencyMissing"   Dependency not provided for                     *)
(*   "UnboundDefinition"   Unbound struct / Unbound function               *)
(*   "DependencyMalformed" Malformed dependency                            *)
(*   "MissingDefinition"   Missing struct / enum / constant definition     *)
(*   "UnboundMember"       Unbound field / Unbound variant                 *)
(*   "DuplicateDependency" Duplicate dependency module                     *)
(*   "panic"               a failed unwrap, assert! or slice index         *)
(***************************************************************************)

Ok(c, v) == [ok |-> TRUE, err |-> "", val |-> v, c |-> c]
Err(c, e) == [ok |-> FALSE, err |-> e, val |-> NoIdx, c |-> c]

\* the ? operator (as in `self.module_handle_index(&mname)?`, context.rs:717):
\* an Err returns to the caller at once, with the Context as the failed call
\* left it; an Ok result is passed on to the rest of the body
Try(r, F(_)) == IF r.ok THEN F(r) ELSE r

\* `let r = v;` followed by the rest of the body (as in context.rs:813)
Let(v, F(_)) == F(v)

\* Context::new: the current module goes into the source map and nowhere else
Context_new(dependencies, current_module_opt) ==
    [dependencies |-> dependencies,
     aliases |-> <<>>,
     modules |-> <<>>,
     structs |-> <<>>,
     struct_defs |-> EmptyPool,
     enum_defs |-> EmptyPool,
     named_constants |-> <<>>,
     labels |-> EmptyPool,
     fields |-> <<>>,
     variants |-> <<>>,
     function_handles |-> <<>>,
     function_signatures |-> <<>>,
     module_handles |-> EmptyPool,
     data_type_handles |-> EmptyPool,
     field_handles |-> EmptyPool,
     struct_instantiations |-> EmptyPool,
     enum_instantiations |-> EmptyPool,
     function_instantiations |-> EmptyPool,
     field_instantiations |-> EmptyPool,
     signatures |-> EmptyPool,
     identifiers |-> EmptyPool,
     address_identifiers |-> EmptyPool,
     constant_pool |-> EmptyPool,
     current_function_index |-> 0,
     source_map |-> [module_name_opt |-> current_module_opt]]

\* the simple pools of the Context, by field name
SimplePools ==
    {"module_handles", "data_type_handles", "field_handles", "struct_instantiations",
     "enum_instantiations", "function_instantiations", "field_instantiations",
     "signatures", "identifiers", "address_identifiers", "constant_pool"}

\* Context::module_alias
module_alias(c, ident) ==
    IF ident \in DOMAIN c.aliases THEN Ok(c, c.aliases[ident])
    ELSE Err(c, "MissingImport")

\* Context::module_handle
module_handle(c, module_name) ==
    IF module_name \in DOMAIN c.modules THEN Ok(c, c.modules[module_name].handle)
    ELSE Err(c, "UnboundAlias")

\* Context::module_ident
module_ident(c, module_name) ==
    IF module_name \in DOMAIN c.modules THEN Ok(c, c.modules[module_name].ident)
    ELSE Err(c, "UnboundAlias")

\* Context::module_handle_index
module_handle_index(c, module_name) ==
    Try(module_handle(c, module_name), LAMBDA mh :
        IF PoolContains(c.module_handles, mh.val)
        THEN Ok(c, c.module_handles.map[mh.val])
        ELSE Err(c, "panic"))

\* one of the *_index methods that are get_or_add_item on one simple pool:
\* field_handle_index, struct_instantiation_index, enum_instantiation_index,
\* function_instantiation_index, field_instantiation_index, identifier_index,
\* address_index, constant_index, signature_index
simple_index(c, p, item) ==
    Let(get_or_add_item(c[p], item), LAMBDA r :
        IF r.ok THEN Ok([c EXCEPT ![p] = r.m], r.idx)
        ELSE Err(c, "TableOverflow"))

\* Context::identifier_index
identifier_index(c, s) == simple_index(c, "identifiers", s)

\* Context::address_index
address_index(c, addr) == simple_index(c, "address_identifiers", addr)

\* Context::signature_index
signature_index(c, sig) == simple_index(c, "signatures", sig)

\* declare_import that keeps the alias an identity already has
declare_import_first_alias(c, id, alias) ==
    Try(address_index([c EXCEPT !.aliases = @ @@ (id :> alias)], id.address),
        LAMBDA address :
    Try(identifier_index(address.c, id.name), LAMBDA name :
        LET mh == [address |-> address.val, name |-> name.val]
            c2 == [name.c EXCEPT
                      !.modules = (alias :> [ident |-> id, handle |-> mh]) @@ @]
        IN  Let(get_or_add_item(c2.module_handles, mh), LAMBDA r :
                IF r.ok THEN Ok([c2 EXCEPT !.module_handles = r.m], r.idx)
                ELSE Err(c2, "TableOverflow"))))

\* Context::declare_import
declare_import(c, id, alias) ==
    Try(address_index([c EXCEPT !.aliases = (id :> alias) @@ @], id.address),
        LAMBDA address :
    Try(identifier_index(address.c, id.name), LAMBDA name :
        LET mh == [address |-> address.val, name |-> name.val]
            c2 == [name.c EXCEPT
                      !.modules = (alias :> [ident |-> id, handle |-> mh]) @@ @]
        IN  Let(get_or_add_item(c2.module_handles, mh), LAMBDA r :
                IF r.ok THEN Ok([c2 EXCEPT !.module_handles = r.m], r.idx)
                ELSE Err(c2, "TableOverflow"))))

\* Context::declare_data_type_handle_index_with_abilities
declare_data_type_handle_index_with_abilities(c, sname, abilities, type_parameters) ==
    Try(module_handle_index(c, sname.module), LAMBDA module :
    Try(identifier_index(module.c, sname.name), LAMBDA name :
        LET handle == [module |-> module.val, name |-> name.val,
                       abilities |-> abilities, type_parameters |-> type_parameters]
            c2 == [name.c EXCEPT !.structs = (sname :> handle) @@ @]
        IN  Let(get_or_add_item(c2.data_type_handles, handle), LAMBDA r :
                IF r.ok THEN Ok([c2 EXCEPT !.data_type_handles = r.m], r.idx)
                ELSE Err(c2, "TableOverflow"))))

\* Context::declare_data_type_handle_index
declare_data_type_handle_index(c, sname, abilities, type_parameters) ==
    declare_data_type_handle_index_with_abilities(c, sname, abilities, type_parameters)

\* dependency that indexes the store (self.dependencies[m]) and so panics on
\* a module that was not supplied
dependency_unchecked(c, m) ==
    IF m \in DOMAIN c.dependencies
    THEN Ok(c, CompiledDependencyView_new(DepModule(c.dependencies[m])))
    ELSE Err(c, "panic")

\* Context::dependency: the view of the dependency stored for m
dependency(c, m) ==
    IF m \in DOMAIN c.dependencies
    THEN Ok(c, CompiledDependencyView_new(DepModule(c.dependencies[m])))
    ELSE Err(c, "DependencyMissing")

\* dep_data_type_handle without the test for Self
dep_data_type_handle_noself(c, s) ==
    Try(module_ident(c, s.module), LAMBDA mident :
    Try(dependency(c, mident.val), LAMBDA dep :
    Let(View_data_type_handle(dep.val, mident.val.name, s.name), LAMBDA shandle :
        IF ~shandle.some THEN Err(c, "UnboundDefinition")
        ELSE Ok(c, [abilities |-> shandle.v.abilities,
                    type_parameters |-> shandle.v.type_parameters]))))

\* Context::dep_data_type_handle
dep_data_type_handle(c, s) ==
    IF s.module = SELF_MODULE_NAME THEN Err(c, "UnboundDefinition") ELSE
    Try(module_ident(c, s.module), LAMBDA mident :
    Try(dependency(c, mident.val), LAMBDA dep :
    Let(View_data_type_handle(dep.val, mident.val.name, s.name), LAMBDA shandle :
        IF ~shandle.some THEN Err(c, "UnboundDefinition")
        ELSE Ok(c, [abilities |-> shandle.v.abilities,
                    type_parameters |-> shandle.v.type_parameters]))))

\* data_type_handle_index without the lookup in structs: every call imports
data_type_handle_index_nocache(c, s) ==
    Try(dep_data_type_handle(c, s), LAMBDA shape :
        declare_data_type_handle_index_with_abilities(
            c, s, shape.val.abilities, shape.val.type_parameters))

\* Context::data_type_handle_index
data_type_handle_index(c, s) ==
    IF s \in DOMAIN c.structs
    THEN IF PoolContains(c.data_type_handles, c.structs[s])
         THEN Ok(c, c.data_type_handles.map[c.structs[s]])
         ELSE Err(c, "panic")
    ELSE Try(dep_data_type_handle(c, s), LAMBDA shape :
             declare_data_type_handle_index_with_abilities(
                 c, s, shape.val.abilities, shape.val.type_parameters))

\* re-indexing that keeps the index the token has in the dependency
reindex_data_type_foreign(c, dep, orig_sh_idx) == Ok(c, orig_sh_idx)

\* the named-type arms of reindex_signature_token, up to the local index:
\* dependency(dep), source_struct_info, module_alias, data_type_handle_index
reindex_data_type(c, dep, orig_sh_idx) ==
    Try(dependency(c, dep), LAMBDA dep_info :
    Let(source_struct_info(dep_info.val, orig_sh_idx), LAMBDA info :
        IF info.panic THEN Err(c, "panic") ELSE
        IF ~info.some THEN Err(c, "DependencyMalformed") ELSE
        Try(module_alias(c, info.ident), LAMBDA module_name :
            data_type_handle_index(c, [module |-> module_name.val,
                                       name |-> info.name]))))

RECURSIVE reindex_signature_token(_, _, _)
RECURSIVE reindex_tokens(_, _, _)

\* Context::reindex_signature_token
reindex_signature_token(c, dep, orig) ==
    IF orig[1] \in {"Vector", "Reference", "MutableReference"}
    THEN Try(reindex_signature_token(c, dep, orig[2]), LAMBDA correct_inner :
             Ok(correct_inner.c, <<orig[1], correct_inner.val>>))
    ELSE IF orig[1] = "DataType"
    THEN Try(reindex_data_type(c, dep, orig[2]), LAMBDA correct_sh_idx :
             Ok(correct_sh_idx.c, <<"DataType", correct_sh_idx.val>>))
    ELSE IF orig[1] = "DataTypeInstantiation"
    THEN Try(reindex_data_type(c, dep, orig[2]), LAMBDA correct_sh_idx :
         Try(reindex_tokens(correct_sh_idx.c, dep, orig[3]), LAMBDA correct_inners :
             Ok(correct_inners.c,
                <<"DataTypeInstantiation", correct_sh_idx.val, correct_inners.val>>)))
    ELSE Ok(c, orig)

\* tokens.into_iter().map(|t| self.reindex_signature_token(dep, t))
\*       .collect::<Result<_>>(): left to right, stopping at the first Err
reindex_tokens(c, dep, tokens) ==
    IF tokens = <<>> THEN Ok(c, <<>>) ELSE
    Try(reindex_signature_token(c, dep, Head(tokens)), LAMBDA head :
    Try(reindex_tokens(head.c, dep, Tail(tokens)), LAMBDA tail :
        Ok(tail.c, <<head.val>> \o tail.val)))

\* Context::reindex_function_signature
reindex_function_signature(c, dep, orig) ==
    Try(reindex_tokens(c, dep, orig.return_), LAMBDA return_ :
    Try(reindex_tokens(return_.c, dep, orig.parameters), LAMBDA parameters :
        Ok(parameters.c, [return_ |-> return_.val, parameters |-> parameters.val,
                          type_parameters |-> orig.type_parameters])))

\* Context::dep_function_signature
dep_function_signature(c, m, f) ==
    IF m = SELF_MODULE_NAME THEN Err(c, "UnboundDefinition") ELSE
    Try(module_ident(c, m), LAMBDA mident :
    Try(dependency(c, mident.val), LAMBDA dep :
    Let(View_function_signature(dep.val, f), LAMBDA sig :
        IF sig.panic THEN Err(c, "panic") ELSE
        IF ~sig.some THEN Err(c, "UnboundDefinition")
        ELSE reindex_function_signature(c, mident.val, sig.v))))

\* declare_function without the lookup of an earlier declaration: the handle
\* index is always function_handles.len()
declare_function_fresh_index(c, mname, fname, signature) ==
    Try(module_handle_index(c, mname), LAMBDA module :
    Try(identifier_index(module.c, fname), LAMBDA name :
    Try(signature_index(
            [name.c EXCEPT !.function_signatures = (<<mname, fname>> :> signature) @@ @],
            signature.parameters), LAMBDA params_idx :
    Try(signature_index(params_idx.c, signature.return_), LAMBDA return_idx :
        LET m_f == <<mname, fname>>
            c2 == return_idx.c
            handle == [module |-> module.val, name |-> name.val,
                       parameters |-> params_idx.val, return_ |-> return_idx.val,
                       type_parameters |-> signature.type_parameters]
            hidx == Cardinality(DOMAIN c2.function_handles)
        IN  IF hidx > TABLE_MAX_SIZE THEN Err(c2, "TableOverflow")
            ELSE Ok([c2 EXCEPT !.function_handles =
                        (m_f :> [handle |-> handle, idx |-> hidx % TableIndexWidth]) @@ @],
                    NoIdx)))))

\* Context::declare_function
declare_function(c, mname, fname, signature) ==
    Try(module_handle_index(c, mname), LAMBDA module :
    Try(identifier_index(module.c, fname), LAMBDA name :
    Try(signature_index(
            [name.c EXCEPT !.function_signatures = (<<mname, fname>> :> signature) @@ @],
            signature.parameters), LAMBDA params_idx :
    Try(signature_index(params_idx.c, signature.return_), LAMBDA return_idx :
        LET m_f == <<mname, fname>>
            c2 == return_idx.c
            handle == [module |-> module.val, name |-> name.val,
                       parameters |-> params_idx.val, return_ |-> return_idx.val,
                       type_parameters |-> signature.type_parameters]
            hidx == IF m_f \in DOMAIN c2.function_handles
                    THEN c2.function_handles[m_f].idx
                    ELSE Cardinality(DOMAIN c2.function_handles)
        IN  IF hidx > TABLE_MAX_SIZE THEN Err(c2, "TableOverflow")
            ELSE Ok([c2 EXCEPT !.function_handles =
                        (m_f :> [handle |-> handle, idx |-> hidx % TableIndexWidth]) @@ @],
                    NoIdx)))))

\* ensure_function_declared without the contains_key test: every call imports
ensure_function_declared_always(c, m, f) ==
    Try(dep_function_signature(c, m, f), LAMBDA sig :
        declare_function(sig.c, m, f, sig.val))

\* Context::ensure_function_declared
ensure_function_declared(c, m, f) ==
    IF <<m, f>> \in DOMAIN c.function_handles
    THEN IF <<m, f>> \in DOMAIN c.function_signatures
         THEN Ok(c, NoIdx) ELSE Err(c, "panic")
    ELSE IF <<m, f>> \in DOMAIN c.function_signatures THEN Err(c, "panic") ELSE
         Try(dep_function_signature(c, m, f), LAMBDA sig :
         Try(declare_function(sig.c, m, f, sig.val), LAMBDA d :
             IF /\ <<m, f>> \in DOMAIN d.c.function_handles
                /\ <<m, f>> \in DOMAIN d.c.function_signatures
             THEN d ELSE Err(d.c, "panic")))

\* Context::function_handle: val is the FunctionHandleIndex of the pair returned
function_handle(c, m, f) ==
    Try(ensure_function_declared(c, m, f), LAMBDA e :
        Ok(e.c, e.c.function_handles[<<m, f>>].idx))

\* declare_friend that interns the module handle as declare_import does
declare_friend_interning(c, id) ==
    Try(address_index(c, id.address), LAMBDA address :
    Try(identifier_index(address.c, id.name), LAMBDA name :
    Try(simple_index(name.c, "module_handles",
                     [address |-> address.val, name |-> name.val]), LAMBDA mh :
        Ok(mh.c, [address |-> address.val, name |-> name.val]))))

\* Context::declare_friend: val is the ModuleHandle returned
declare_friend(c, id) ==
    Try(address_index(c, id.address), LAMBDA address :
    Try(identifier_index(address.c, id.name), LAMBDA name :
        Ok(name.c, [address |-> address.val, name |-> name.val])))

\* Context::label_index: get_or_add_item on the label table
label_index(c, label) == simple_index(c, "labels", label)

\* build_index_remapping that leaves the label table as it is
build_index_remapping_keep(c, label_to_index) ==
    IF \E lbl \in DOMAIN label_to_index : ~PoolContains(c.labels, lbl)
    THEN Err(c, "panic")
    ELSE Ok(c,
            [o \in {c.labels.map[lbl] : lbl \in DOMAIN label_to_index} |->
                label_to_index[CHOOSE lbl \in DOMAIN label_to_index :
                                   c.labels.map[lbl] = o]])

\* Context::build_index_remapping: the label table is taken (left empty), and
\* every (label, real offset) pair of label_to_index becomes (labels[label],
\* real offset); labels[&lbl] of a label that is not in the table panics.
\* val is the HashMap<u16, u16> returned.
build_index_remapping(c, label_to_index) ==
    IF \E lbl \in DOMAIN label_to_index : ~PoolContains(c.labels, lbl)
    THEN Err([c EXCEPT !.labels = EmptyPool], "panic")
    ELSE Ok([c EXCEPT !.labels = EmptyPool],
            [o \in {c.labels.map[lbl] : lbl \in DOMAIN label_to_index} |->
                label_to_index[CHOOSE lbl \in DOMAIN label_to_index :
                                   c.labels.map[lbl] = o]])

\* take_dependencies that hands out the store and keeps it as well
take_dependencies_shared(c) == Ok(c, c.dependencies)

\* Context::take_dependencies: mem::take leaves HashMap::default(); val is
\* the store returned
take_dependencies(c) == Ok([c EXCEPT !.dependencies = <<>>], c.dependencies)

\* Context::restore_dependencies: assert!(self.dependencies.is_empty())
restore_dependencies(c, dependencies) ==
    IF DOMAIN c.dependencies # {} THEN Err(c, "panic")
    ELSE Ok([c EXCEPT !.dependencies = dependencies], NoIdx)

\* add_compiled_dependency that inserts over an entry already stored
add_compiled_dependency_overwrite(c, tag) ==
    Ok([c EXCEPT !.dependencies = (ModuleSelfId(DepModule(tag)) :> tag) @@ @], NoIdx)

\* Context::add_compiled_dependency: the module is stored under the address
\* and name of its self handle
add_compiled_dependency(c, tag) ==
    LET ident == ModuleSelfId(DepModule(tag)) IN
    IF ident \in DOMAIN c.dependencies THEN Err(c, "DuplicateDependency")
    ELSE Ok([c EXCEPT !.dependencies = (ident :> tag) @@ @], NoIdx)

\* declare_*_definition_index that takes the index after the insertion
declare_definition_index_after_insert(c, t, s) ==
    IF PoolLen(c[t]) > TABLE_MAX_SIZE THEN Err(c, "TableOverflow")
    ELSE IF PoolContains(c[t], s) THEN Ok(c, c[t].map[s])
    ELSE Ok([c EXCEPT ![t].map = (s :> ((PoolLen(c[t]) + 1) % TableIndexWidth)) @@ @],
            (PoolLen(c[t]) + 1) % TableIndexWidth)

\* the body shared by declare_struct_definition_index (t = "struct_defs") and
\* declare_enum_definition_index (t = "enum_defs"):
\* idx = len; bail if idx > TABLE_MAX_SIZE; *entry(s).or_insert(idx as TableIndex)
declare_definition_index(c, t, s) ==
    IF PoolLen(c[t]) > TABLE_MAX_SIZE THEN Err(c, "TableOverflow")
    ELSE IF PoolContains(c[t], s) THEN Ok(c, c[t].map[s])
    ELSE Ok([c EXCEPT ![t].map = (s :> (PoolLen(c[t]) % TableIndexWidth)) @@ @],
            PoolLen(c[t]) % TableIndexWidth)

\* Context::declare_struct_definition_index
declare_struct_definition_index(c, s) == declare_definition_index(c, "struct_defs", s)

\* Context::declare_enum_definition_index
declare_enum_definition_index(c, s) == declare_definition_index(c, "enum_defs", s)

\* Context::constant_index
constant_index(c, constant) == simple_index(c, "constant_pool", constant)

\* declare_constant that keeps the index of an earlier declaration of the name
declare_constant_first_wins(c, name, constant) ==
    Try(constant_index(c, constant), LAMBDA idx :
        Ok(IF name \in DOMAIN idx.c.named_constants THEN idx.c
           ELSE [idx.c EXCEPT !.named_constants = (name :> idx.val) @@ @], NoIdx))

\* Context::declare_constant
declare_constant(c, name, constant) ==
    Try(constant_index(c, constant), LAMBDA idx :
        Ok([idx.c EXCEPT !.named_constants = (name :> idx.val) @@ @], NoIdx))

\* Context::named_constant_index
named_constant_index(c, constant) ==
    IF constant \in DOMAIN c.named_constants THEN Ok(c, c.named_constants[constant])
    ELSE Err(c, "MissingDefinition")

\* declare_field that overwrites an earlier registration of (s, f)
declare_field_overwrite(c, s, sd_idx, f, token, decl_order) ==
    Ok([c EXCEPT !.fields = (<<s, f>> :> <<sd_idx, token, decl_order>>) @@ @], NoIdx)

\* Context::declare_field: fields.entry((s, f)).or_insert(..)
declare_field(c, s, sd_idx, f, token, decl_order) ==
    IF <<s, f>> \in DOMAIN c.fields THEN Ok(c, NoIdx)
    ELSE Ok([c EXCEPT !.fields = (<<s, f>> :> <<sd_idx, token, decl_order>>) @@ @],
            NoIdx)

\* Context::field
field(c, s, f) ==
    IF <<s, f>> \in DOMAIN c.fields THEN Ok(c, c.fields[<<s, f>>])
    ELSE Err(c, "UnboundMember")

\* Context::declare_variant: variants.entry((s, f)).or_insert(..)
declare_variant(c, s, ed_idx, f, field_count, tag) ==
    IF <<s, f>> \in DOMAIN c.variants THEN Ok(c, NoIdx)
    ELSE Ok([c EXCEPT !.variants = (<<s, f>> :> <<ed_idx, field_count, tag>>) @@ @],
            NoIdx)

\* Context::variant: the tag of the registered variant
variant(c, s, f) ==
    IF <<s, f>> \in DOMAIN c.variants THEN Ok(c, c.variants[<<s, f>>][3])
    ELSE Err(c, "UnboundMember")

\* Context::materialize_pool(size, items), for the named entries `items`
\* (key -> [item, idx]) of a table whose first `fill` indices belong to
\* unnamed entries: the Vec as [len, fill, at], at[i] the item at position i.
\* It fails when an index is out of range or used twice (the assert! and the
\* slice index) or a position is left empty (the unwrap).
materialize_pool(size, fill, items) ==
    LET keys == DOMAIN items
        dense == /\ \A k \in keys : items[k].idx >= fill /\ items[k].idx < size
                 /\ \A k1, k2 \in keys : k1 # k2 => items[k1].idx # items[k2].idx
                 /\ \A i \in fill .. (size - 1) : \E k \in keys : items[k].idx = i
    IN  IF ~dense THEN [ok |-> FALSE, len |-> 0, fill |-> 0, at |-> <<>>]
        ELSE [ok |-> TRUE, len |-> size, fill |-> fill,
              at |-> [i \in fill .. (size - 1) |->
                         items[CHOOSE k \in keys : items[k].idx = i].item]]

\* Context::materialize_map
materialize_map(m) ==
    materialize_pool(PoolLen(m), m.fill,
                     [k \in DOMAIN m.map |-> [item |-> k, idx |-> m.map[k]]])

\* materialize_pools that hands back a new, empty store
materialize_pools_new_store(c) ==
    LET num_functions == Cardinality(DOMAIN c.function_handles) IN
    IF num_functions # Cardinality(DOMAIN c.function_signatures)
    THEN [ok |-> FALSE, err |-> "panic:cardinality", pools |-> <<>>, dependencies |-> <<>>]
    ELSE LET function_handles ==
                 materialize_pool(num_functions, 0,
                     [k \in DOMAIN c.function_handles |->
                         [item |-> c.function_handles[k].handle,
                          idx |-> c.function_handles[k].idx]])
             simple == [p \in SimplePools |-> materialize_map(c[p])]
         IN  IF ~function_handles.ok \/ \E p \in SimplePools : ~simple[p].ok
             THEN [ok |-> FALSE, err |-> "panic:density", pools |-> <<>>,
                   dependencies |-> <<>>]
             ELSE [ok |-> TRUE, err |-> "",
                   pools |-> [p \in SimplePools \cup {"function_handles"} |->
                                 IF p = "function_handles" THEN function_handles
                                 ELSE simple[p]],
                   dependencies |-> <<>>]

\* Context::materialize_pools: the MaterializedPools and the dependencies
materialize_pools(c) ==
    LET num_functions == Cardinality(DOMAIN c.function_handles) IN
    IF num_functions # Cardinality(DOMAIN c.function_signatures)
    THEN [ok |-> FALSE, err |-> "panic:cardinality", pools |-> <<>>, dependencies |-> <<>>]
    ELSE LET function_handles ==
                 materialize_pool(num_functions, 0,
                     [k \in DOMAIN c.function_handles |->
                         [item |-> c.function_handles[k].handle,
                          idx |-> c.function_handles[k].idx]])
             simple == [p \in SimplePools |-> materialize_map(c[p])]
         IN  IF ~function_handles.ok \/ \E p \in SimplePools : ~simple[p].ok
             THEN [ok |-> FALSE, err |-> "panic:density", pools |-> <<>>,
                   dependencies |-> <<>>]
             ELSE [ok |-> TRUE, err |-> "",
                   pools |-> [p \in SimplePools \cup {"function_handles"} |->
                                 IF p = "function_handles" THEN function_handles
                                 ELSE simple[p]],
                   dependencies |-> c.dependencies]

(***************************************************************************)
(* Spec: one Context and the operations a front-end performs on it.        *)
(***************************************************************************)

\* at most MaxOps operations are performed on a Context
MaxOps == 4
\* Prefill leaves a pool at most PrefillGap entries short of TABLE_MAX_SIZE
PrefillGap == 1

Aliases == {SELF_MODULE_NAME, "X", "Y"}
ImportIds == {IdD, IdD2, IdE}
TypeNames == {"S", "U"}
FunNames == {"f", "g"}
QNames == [module : Aliases, name : TypeNames]

\* the shapes the front-end declares type handles with
DeclShapes ==
    {[abilities |-> {"copy", "drop"}, type_parameters |-> <<>>],
     [abilities |-> {"key"}, type_parameters |-> <<{}>>]}

\* the signatures the front-end declares functions with
DeclSigs ==
    {[return_ |-> <<>>, parameters |-> << <<"U64">> >>, type_parameters |-> <<>>],
     [return_ |-> << <<"Bool">> >>, parameters |-> <<>>, type_parameters |-> <<{}>>]}
DeclFunNames == {"f"}

\* the type names the front-end declares handles for
DeclQNames == [module : Aliases, name : {"S"}]

\* the keys the front-end interns directly
IndexedIdentifiers == {"S"}
IndexedAddresses == {1}

\* the dependencies supplied to the compilation: 1::D and 1::E; 2::D is not
SuppliedDependencies == (IdD :> "ModD") @@ (IdE :> "ModE")

PrefillPools == {"identifiers", "address_identifiers", "signatures", "module_handles"}

\* the module handles of Prefill pair ModuleFillSide addresses with
\* ModuleFillSide names
ModuleFillSide == 256

\* no ModuleHandle was returned
NoHandle == [address |-> NoIdx, name |-> NoIdx]
NoOp == [op |-> "new", args |-> <<>>, ok |-> TRUE, err |-> "", val |-> NoIdx,
         handle |-> NoHandle, map |-> <<>>, fresh |-> FALSE, repeat |-> FALSE]
NoDth == [first |-> NoIdx, redecl |-> FALSE]
\* the compiled module dep, of which no view was built and no query made
NotViewed(dep) ==
    [dep |-> dep, built |-> FALSE, view |-> <<>>, op |-> "none", args |-> <<>>,
     some |-> FALSE, panic |-> FALSE, val |-> NoIdx]

\* no module was boxed yet, no value is in flight, the store is empty and its
\* table was never reallocated; borrowed is what the last borrow_view yielded
NothingOwned ==
    [heap |-> <<>>, boxes |-> 0, flight |-> <<>>, table |-> <<>>, grown |-> 0,
     borrowed |-> <<>>]

\* the caller holds no Dependency Store: stores are the stores
\* take_dependencies returned and restore_dependencies did not yet receive,
\* before is the Context as it was when the last take_dependencies was called
NothingTaken == [stores |-> <<>>, before |-> Context_new(<<>>, IdM)]

\* no label was requested yet: requested counts the distinct labels requested
\* since the last build_index_remapping, offset holds what label_index
\* returned for them, compiled counts the build_index_remapping calls
NoLabels == [requested |-> 0, offset |-> <<>>, compiled |-> 0]
NotMaterialized == [ok |-> FALSE, err |-> "none", pools |-> <<>>, dependencies |-> <<>>]

Init ==
    /\ ctx = Context_new(SuppliedDependencies, IdM)
    /\ last = NoOp
    /\ pc = "open"
    /\ nops = 0
    /\ dth = [s \in QNames |-> NoDth]
    /\ materialized = NotMaterialized
    /\ handed = NoLabels
    /\ owned = NothingOwned
    /\ viewed = NotViewed(ModE)
    /\ taken = NothingTaken
    /\ pool = EmptyPool
    /\ plast = [k |-> 0, seen |-> FALSE, len |-> 0, ok |-> FALSE, idx |-> NoIdx]
    /\ phist = <<>>

\* what every operation on the Context does with its result r: last.val is
\* the index returned, last.handle the ModuleHandle declare_friend returned,
\* last.map the map build_index_remapping returned.  last.fresh
\* says that the name resolved or declared was not yet local, last.repeat that
\* the call repeats the successful call before it.
Record(op, args, fresh, r) ==
    /\ ctx' = r.c
    /\ last' = [op |-> op, args |-> args, ok |-> r.ok, err |-> r.err,
                val |-> IF op \in {"declare_friend", "build_index_remapping",
                                     "take_dependencies"}
                        THEN NoIdx ELSE r.val,
                handle |-> IF op = "declare_friend" /\ r.ok THEN r.val ELSE NoHandle,
                map |-> IF op = "build_index_remapping" /\ r.ok THEN r.val ELSE <<>>,
                fresh |-> fresh,
                repeat |-> (last.op = op /\ last.ok /\ last.args = args)]
    /\ pc' = IF r.err = "panic" THEN "aborted" ELSE "open"
    /\ nops' = nops + 1
    /\ UNCHANGED <<materialized, owned, viewed, pvars>>

\* an operation other than label_index, build_index_remapping,
\* take_dependencies and restore_dependencies
Finish(op, args, fresh, r) == Record(op, args, fresh, r) /\ UNCHANGED <<handed, taken>>

Ready == pc = "open" /\ nops < MaxOps

\* the Context after TABLE_MAX_SIZE - gap successive identifier_index,
\* address_index, signature_index or declare_import calls on the still empty
\* pool p, each with a key (and alias) the model does not name.  The imports
\* intern their addresses and names as well.
Prefilled(c, p, gap) ==
    IF p = "module_handles"
    THEN [c EXCEPT !.module_handles = [fill |-> TABLE_MAX_SIZE - gap, map |-> <<>>],
                   !.address_identifiers = [fill |-> ModuleFillSide, map |-> <<>>],
                   !.identifiers = [fill |-> ModuleFillSide, map |-> <<>>]]
    ELSE [c EXCEPT ![p] = [fill |-> TABLE_MAX_SIZE - gap, map |-> <<>>]]

Prefill(p, gap) ==
    /\ Ready
    /\ ctx[p] = EmptyPool
    /\ p = "module_handles" =>
           ctx.address_identifiers = EmptyPool /\ ctx.identifiers = EmptyPool
    /\ Finish("prefill", <<p>>, FALSE, Ok(Prefilled(ctx, p, gap), NoIdx))
    /\ UNCHANGED dth

IdentifierIndex(s) ==
    /\ Ready
    /\ Finish("identifier_index", <<s>>, FALSE, identifier_index(ctx, s))
    /\ UNCHANGED dth

AddressIndex(a) ==
    /\ Ready
    /\ Finish("address_index", <<a>>, FALSE, address_index(ctx, a))
    /\ UNCHANGED dth

SignatureIndex(sig) ==
    /\ Ready
    /\ Finish("signature_index", <<sig>>, FALSE, signature_index(ctx, sig))
    /\ UNCHANGED dth

DeclareImport(id, alias) ==
    /\ Ready
    /\ Finish("declare_import", <<id, alias>>, FALSE, declare_import(ctx, id, alias))
    /\ UNCHANGED dth

DeclareDataTypeHandleIndex(sname, shape) ==
    /\ Ready
    /\ Finish("declare_data_type_handle_index", <<sname, shape>>, FALSE,
              declare_data_type_handle_index(ctx, sname, shape.abilities,
                                             shape.type_parameters))
    /\ dth' = [dth EXCEPT ![sname].redecl = (dth[sname].first # NoIdx)]

DataTypeHandleIndex(s) ==
    /\ Ready
    /\ LET r == data_type_handle_index(ctx, s)
           fresh == s \notin DOMAIN ctx.structs
       IN  /\ Finish("data_type_handle_index", <<s>>, fresh, r)
           /\ dth' = IF r.ok /\ fresh THEN [dth EXCEPT ![s].first = r.val] ELSE dth

DeclareFunction(m, f, sig) ==
    /\ Ready
    /\ Finish("declare_function", <<m, f, sig>>,
              <<m, f>> \notin DOMAIN ctx.function_handles,
              declare_function(ctx, m, f, sig))
    /\ UNCHANGED dth

\* function_handle may import types on its way: their first resolutions
\* are recorded as those of DataTypeHandleIndex are
FunctionHandle(m, f) ==
    /\ Ready
    /\ LET r == function_handle(ctx, m, f)
       IN  /\ Finish("function_handle", <<m, f>>,
                     <<m, f>> \notin DOMAIN ctx.function_handles, r)
           /\ dth' = [s \in QNames |->
                 IF s \notin DOMAIN ctx.structs /\ s \in DOMAIN r.c.structs
                    /\ PoolContains(r.c.data_type_handles, r.c.structs[s])
                 THEN [dth[s] EXCEPT !.first = r.c.data_type_handles.map[r.c.structs[s]]]
                 ELSE dth[s]]

MaterializePools ==
    /\ Ready
    /\ materialized' = materialize_pools(ctx)
    /\ pc' = IF materialized'.ok THEN "done" ELSE "aborted"
    /\ last' = [op |-> "materialize_pools", args |-> <<>>, ok |-> materialized'.ok,
                err |-> materialized'.err, val |-> NoIdx, handle |-> NoHandle,
                map |-> <<>>, fresh |-> FALSE, repeat |-> FALSE]
    /\ nops' = nops + 1
    /\ UNCHANGED <<ctx, dth, handed, owned, viewed, taken, pvars>>

Next ==
    \/ \E p \in PrefillPools, gap \in 0 .. PrefillGap : Prefill(p, gap)
    \/ \E s \in IndexedIdentifiers : IdentifierIndex(s)
    \/ \E a \in IndexedAddresses : AddressIndex(a)
    \/ \E sig \in DeclSigs : SignatureIndex(sig.parameters)
    \/ \E id \in ImportIds, alias \in Aliases : DeclareImport(id, alias)
    \/ \E s \in DeclQNames, shape \in DeclShapes : DeclareDataTypeHandleIndex(s, shape)
    \/ \E s \in QNames : DataTypeHandleIndex(s)
    \/ \E m \in Aliases, f \in DeclFunNames, sig \in DeclSigs : DeclareFunction(m, f, sig)
    \/ \E m \in Aliases, f \in FunNames : FunctionHandle(m, f)
    \/ MaterializePools

Spec == Init /\ [][Next]_vars

(***************************************************************************)
(* SpecDefs: one Context and the declarations of definitions, constants,   *)
(* fields and variants, with the dependencies added one by one.            *)
(***************************************************************************)

\* at most MaxDefOps operations are performed on the Context
MaxDefOps == 4
\* PrefillDefs leaves a table at most DefGap entries short of TABLE_MAX_SIZE
DefGap == 1

DefTables == {"struct_defs", "enum_defs"}
DefNames == {"A", "B"}
ConstNames == {"K"}
ConstValues == {"c1", "c2"}
MemberOwners == {0}
MemberNames == {"x"}
\* (sd_idx, token, decl_order) of a field
FieldData == {<<0, <<"U64">>, 0>>, <<1, <<"Bool">>, 1>>}
\* (ed_idx, field_count, tag) of a variant
VariantData == {<<0, 0, 0>>, <<1, 2, 1>>}
AddedModules == {"ModD", "ModD1", "ModE"}
PrefillDefTables == {"struct_defs", "enum_defs", "constant_pool"}

InitDefs ==
    /\ ctx = Context_new((IdE :> "ModE"), IdM)
    /\ last = NoOp
    /\ pc = "open"
    /\ nops = 0
    /\ dth = [s \in QNames |-> NoDth]
    /\ materialized = NotMaterialized
    /\ handed = NoLabels
    /\ owned = NothingOwned
    /\ viewed = NotViewed(ModE)
    /\ taken = NothingTaken
    /\ pool = EmptyPool
    /\ plast = [k |-> 0, seen |-> FALSE, len |-> 0, ok |-> FALSE, idx |-> NoIdx]
    /\ phist = <<>>

ReadyDefs == pc = "open" /\ nops < MaxDefOps

\* TABLE_MAX_SIZE - gap successive declare_struct_definition_index,
\* declare_enum_definition_index or constant_index calls on the still empty
\* table t, each with a name the model does not mention
PrefillDefs(t, gap) ==
    /\ ReadyDefs
    /\ ctx[t] = EmptyPool
    /\ Finish("prefill", <<t>>, FALSE,
              Ok([ctx EXCEPT ![t] = [fill |-> TABLE_MAX_SIZE - gap, map |-> <<>>]], NoIdx))
    /\ UNCHANGED dth

DeclareStructDefinitionIndex(s) ==
    /\ ReadyDefs
    /\ Finish("declare_struct_definition_index", <<s>>,
              ~PoolContains(ctx.struct_defs, s), declare_struct_definition_index(ctx, s))
    /\ UNCHANGED dth

DeclareEnumDefinitionIndex(s) ==
    /\ ReadyDefs
    /\ Finish("declare_enum_definition_index", <<s>>,
              ~PoolContains(ctx.enum_defs, s), declare_enum_definition_index(ctx, s))
    /\ UNCHANGED dth

DeclareConstant(name, constant) ==
    /\ ReadyDefs
    /\ Finish("declare_constant", <<name, constant>>,
              name \notin DOMAIN ctx.named_constants,
              declare_constant(ctx, name, constant))
    /\ UNCHANGED dth

NamedConstantIndex(name) ==
    /\ ReadyDefs
    /\ Finish("named_constant_index", <<name>>, FALSE, named_constant_index(ctx, name))
    /\ UNCHANGED dth

DeclareField(s, f, data) ==
    /\ ReadyDefs
    /\ Finish("declare_field", <<s, f, data>>, <<s, f>> \notin DOMAIN ctx.fields,
              declare_field(ctx, s, data[1], f, data[2], data[3]))
    /\ UNCHANGED dth

Field(s, f) ==
    /\ ReadyDefs
    /\ Finish("field", <<s, f>>, FALSE, field(ctx, s, f))
    /\ UNCHANGED dth

DeclareVariant(s, f, data) ==
    /\ ReadyDefs
    /\ Finish("declare_variant", <<s, f, data>>, <<s, f>> \notin DOMAIN ctx.variants,
              declare_variant(ctx, s, data[1], f, data[2], data[3]))
    /\ UNCHANGED dth

Variant(s, f) ==
    /\ ReadyDefs
    /\ Finish("variant", <<s, f>>, FALSE, variant(ctx, s, f))
    /\ UNCHANGED dth

AddCompiledDependency(tag) ==
    /\ ReadyDefs
    /\ Finish("add_compiled_dependency", <<tag>>,
              ModuleSelfId(DepModule(tag)) \notin DOMAIN ctx.dependencies,
              add_compiled_dependency(ctx, tag))
    /\ UNCHANGED dth

NextDefs ==
    \/ \E t \in PrefillDefTables, gap \in 0 .. DefGap : PrefillDefs(t, gap)
    \/ \E s \in DefNames : DeclareStructDefinitionIndex(s)
    \/ \E s \in DefNames : DeclareEnumDefinitionIndex(s)
    \/ \E name \in ConstNames, constant \in ConstValues : DeclareConstant(name, constant)
    \/ \E name \in ConstNames : NamedConstantIndex(name)
    \/ \E s \in MemberOwners, f \in MemberNames, data \in FieldData : DeclareField(s, f, data)
    \/ \E s \in MemberOwners, f \in MemberNames : Field(s, f)
    \/ \E s \in MemberOwners, f \in MemberNames, data \in VariantData : DeclareVariant(s, f, data)
    \/ \E s \in MemberOwners, f \in MemberNames : Variant(s, f)
    \/ \E tag \in AddedModules : AddCompiledDependency(tag)

SpecDefs == InitDefs /\ [][NextDefs]_vars

(***************************************************************************)
(* SpecLabels: one Context and the labels of the functions compiled with   *)
(* it, one function after the other.                                       *)
(***************************************************************************)

\* at most MaxLabelOps operations are performed on the Context
MaxLabelOps == 5
\* PrefillLabels leaves the label table at most LabelGap short of TABLE_MAX_SIZE
LabelGap == 1

Labels == {"L1", "L2", "L3"}
\* the real code offsets the labels of a function are mapped to
RealOffsets == {0, 4}
\* the label_to_index maps handed to build_index_remapping
LabelMaps == UNION {[ls -> RealOffsets] : ls \in SUBSET Labels}

InitLabels ==
    /\ ctx = Context_new(<<>>, IdM)
    /\ last = NoOp
    /\ pc = "open"
    /\ nops = 0
    /\ dth = [s \in QNames |-> NoDth]
    /\ materialized = NotMaterialized
    /\ handed = NoLabels
    /\ owned = NothingOwned
    /\ viewed = NotViewed(ModE)
    /\ taken = NothingTaken
    /\ pool = EmptyPool
    /\ plast = [k |-> 0, seen |-> FALSE, len |-> 0, ok |-> FALSE, idx |-> NoIdx]
    /\ phist = <<>>

ReadyLabels == pc = "open" /\ nops < MaxLabelOps

\* TABLE_MAX_SIZE - gap successive label_index calls in the function being
\* compiled, each with a label the model does not name
PrefillLabels(gap) ==
    /\ ReadyLabels
    /\ ctx.labels = EmptyPool
    /\ Record("prefill", <<"labels">>, FALSE,
              Ok([ctx EXCEPT !.labels = [fill |-> TABLE_MAX_SIZE - gap, map |-> <<>>]],
                 NoIdx))
    /\ handed' = [handed EXCEPT !.requested = TABLE_MAX_SIZE - gap]
    /\ UNCHANGED <<dth, taken>>

LabelIndex(label) ==
    /\ ReadyLabels
    /\ LET r == label_index(ctx, label)
           fresh == label \notin DOMAIN handed.offset
       IN  /\ Record("label_index", <<label>>, fresh, r)
           /\ handed' = IF r.ok /\ fresh
                        THEN [handed EXCEPT !.requested = @ + 1,
                                            !.offset = (label :> r.val) @@ @]
                        ELSE handed
    /\ UNCHANGED <<dth, taken>>

\* the end of a function's compilation
BuildIndexRemapping(label_to_index) ==
    /\ ReadyLabels
    /\ Record("build_index_remapping", <<label_to_index>>, FALSE,
              build_index_remapping(ctx, label_to_index))
    /\ handed' = [NoLabels EXCEPT !.compiled = handed.compiled + 1]
    /\ UNCHANGED <<dth, taken>>

NextLabels ==
    \/ \E gap \in 0 .. LabelGap : PrefillLabels(gap)
    \/ \E label \in Labels : LabelIndex(label)
    \/ \E label_to_index \in LabelMaps : BuildIndexRemapping(label_to_index)

SpecLabels == InitLabels /\ [][NextLabels]_vars

(***************************************************************************)
(* SpecUnit: one Context over a compilation unit: dependencies are added,  *)
(* modules imported and friends declared, foreign names resolved, and the  *)
(* pools materialized.                                                     *)
(***************************************************************************)

UnitAliases == {"X", "Y"}
UnitQNames == [module : UnitAliases, name : TypeNames]
UnitPrefillPools == {"identifiers", "address_identifiers"}
FriendIds == {IdD, IdD2, IdE}
UnitModules == AddedModules \cup {"ModF"}
UnitImportIds == ImportIds \cup {IdF}
UnitFunNames == {"f", "i", "j"}

InitUnit ==
    /\ ctx = Context_new((IdE :> "ModE"), IdM)
    /\ last = NoOp
    /\ pc = "open"
    /\ nops = 0
    /\ dth = [s \in QNames |-> NoDth]
    /\ materialized = NotMaterialized
    /\ handed = NoLabels
    /\ owned = NothingOwned
    /\ viewed = NotViewed(ModE)
    /\ taken = NothingTaken
    /\ pool = EmptyPool
    /\ plast = [k |-> 0, seen |-> FALSE, len |-> 0, ok |-> FALSE, idx |-> NoIdx]
    /\ phist = <<>>

DeclareFriend(id) ==
    /\ Ready
    /\ Finish("declare_friend", <<id>>, FALSE, declare_friend(ctx, id))
    /\ UNCHANGED dth

NextUnit ==
    \/ \E p \in UnitPrefillPools, gap \in 0 .. PrefillGap : Prefill(p, gap)
    \/ \E tag \in UnitModules : AddCompiledDependency(tag)
    \/ \E id \in UnitImportIds, alias \in UnitAliases : DeclareImport(id, alias)
    \/ \E id \in FriendIds : DeclareFriend(id)
    \/ \E s \in UnitQNames : DataTypeHandleIndex(s)
    \/ \E m \in UnitAliases, f \in UnitFunNames : FunctionHandle(m, f)
    \/ MaterializePools

SpecUnit == InitUnit /\ [][NextUnit]_vars

(***************************************************************************)
(* SpecStored: the owned entries of a Dependency Store.  A value lives at  *)
(* a place (a stack frame or a slot of the store's table) and is moved     *)
(* from place to place; a Box is an address of the heap, and what it       *)
(* points to stays where Box::new put it until the Box is dropped.         *)
(***************************************************************************)

\* at most MaxStoredOps operations are performed on the store
MaxStoredOps == 6
\* the store's table is reallocated at most MaxGrown times
MaxGrown == 2

\* the frame of StoredCompiledDependency::create, the frame of its caller,
\* and the slot of the key id in the store's table after gen reallocations
CreateFrame == [where |-> "create", gen |-> 0, id |-> IdM]
CallerFrame == [where |-> "caller", gen |-> 0, id |-> IdM]
Slot(gen, id) == [where |-> "table", gen |-> gen, id |-> id]

\* an address: the heap allocation n, or the module field of the value at place
HeapAddress(n) == [space |-> "heap", n |-> n, place |-> CreateFrame]
FieldAddress(place) == [space |-> "field", n |-> 0, place |-> place]

\* where the module of an entry is: where its Box points, or, for a module
\* held without a Box, in the entry itself
ModuleAt(e) == IF e.module.boxed THEN HeapAddress(e.module.n) ELSE FieldAddress(e.at)

\* the entries alive: the one in flight and those of the table
Entries(o) ==
    {o.flight[i] : i \in DOMAIN o.flight} \cup {o.table[id] : id \in DOMAIN o.table}

\* the module read through a reference to address a; a reference to a place
\* no module is at any more is dangling
Deref(o, a) ==
    IF a.space = "heap"
    THEN IF a.n \in DOMAIN o.heap THEN o.heap[a.n] ELSE "dangling"
    ELSE IF \E e \in Entries(o) : ~e.module.boxed /\ e.at = a.place
         THEN (CHOOSE e \in Entries(o) : ~e.module.boxed /\ e.at = a.place).module.tag
         ELSE "dangling"

\* a move of the value: its bytes, the Box pointer and the view's references
\* among them, are copied to the new place
Moved(e, place) == [e EXCEPT !.at = place]

\* create that keeps the module in the entry, without a Box
StoredCompiledDependency_create_unboxed(o, tag) ==
    [o EXCEPT !.flight =
        <<[at |-> CreateFrame,
           module |-> [boxed |-> FALSE, n |-> 0, tag |-> tag],
           view |-> [borrows |-> FieldAddress(CreateFrame), of |-> tag]]>>]

\* StoredCompiledDependency::create: Box::new(module) first, then the view is
\* built from a reference to the boxed module
StoredCompiledDependency_create(o, tag) ==
    [o EXCEPT !.heap = ((o.boxes + 1) :> tag) @@ @,
              !.boxes = o.boxes + 1,
              !.flight =
                  <<[at |-> CreateFrame,
                     module |-> [boxed |-> TRUE, n |-> o.boxes + 1, tag |-> tag],
                     view |-> [borrows |-> HeapAddress(o.boxes + 1), of |-> tag]]>>]

\* CompiledDependency::stored: the created value is returned to the caller
CompiledDependency_stored(o, tag) ==
    [StoredCompiledDependency_create(o, tag) EXCEPT
        !.flight = <<Moved(@[1], CallerFrame)>>]

\* StoredCompiledDependency::borrow_view, as Context::dependency calls it: a
\* reference to the view field of the entry; module is what the view reads
borrow_view(o, id) ==
    [id |-> id, ref |-> FieldAddress(o.table[id].at),
     module |-> Deref(o, o.table[id].view.borrows)]

InitStored ==
    /\ ctx = Context_new(<<>>, IdM)
    /\ last = NoOp
    /\ pc = "open"
    /\ nops = 0
    /\ dth = [s \in QNames |-> NoDth]
    /\ materialized = NotMaterialized
    /\ handed = NoLabels
    /\ owned = NothingOwned
    /\ viewed = NotViewed(ModE)
    /\ taken = NothingTaken
    /\ pool = EmptyPool
    /\ plast = [k |-> 0, seen |-> FALSE, len |-> 0, ok |-> FALSE, idx |-> NoIdx]
    /\ phist = <<>>

StoredStep(o) ==
    /\ nops < MaxStoredOps
    /\ owned' = o
    /\ nops' = nops + 1
    /\ UNCHANGED <<ctx, last, pc, dth, materialized, handed, viewed, taken, pvars>>

\* CompiledDependency::stored(module)
StoredDependency(tag) ==
    /\ owned.flight = <<>>
    /\ StoredStep([CompiledDependency_stored(owned, tag) EXCEPT !.borrowed = <<>>])

\* the caller puts the value into the store: dependencies.insert(id, dep)
InsertDependency ==
    /\ owned.flight # <<>>
    /\ LET e == owned.flight[1]
           id == ModuleSelfId(DepModule(e.view.of))
       IN  /\ id \notin DOMAIN owned.table
           /\ StoredStep([owned EXCEPT
                  !.flight = <<>>,
                  !.table = (id :> Moved(e, Slot(owned.grown, id))) @@ @,
                  !.borrowed = <<>>])

\* the store's table is reallocated and every entry moves to its new slot
GrowStore ==
    /\ owned.grown < MaxGrown
    /\ DOMAIN owned.table # {}
    /\ StoredStep([owned EXCEPT
           !.grown = @ + 1,
           !.table = [id \in DOMAIN owned.table |->
                         Moved(owned.table[id], Slot(owned.grown + 1, id))],
           !.borrowed = <<>>])

\* Context::dependency on a Stored entry
BorrowView(id) ==
    /\ id \in DOMAIN owned.table
    /\ StoredStep([owned EXCEPT !.borrowed = borrow_view(owned, id)])

\* the store is dropped: every entry, its view and then its Box
DropStore ==
    /\ DOMAIN owned.table # {}
    /\ StoredStep([owned EXCEPT
           !.table = <<>>,
           !.heap = [n \in DOMAIN owned.heap \ {owned.table[id].module.n :
                                                   id \in DOMAIN owned.table} |->
                        owned.heap[n]],
           !.borrowed = <<>>])

NextStored ==
    \/ \E tag \in AddedModules : StoredDependency(tag)
    \/ InsertDependency
    \/ GrowStore
    \/ \E id \in ImportIds : BorrowView(id)
    \/ DropStore

SpecStored == InitStored /\ [][NextStored]_vars

(***************************************************************************)
(* SpecView: one compiled module, the view CompiledDependencyView::new     *)
(* builds of it, and the queries made of the view.                         *)
(***************************************************************************)

\* a dependency has at most MaxViewTypes type handles and MaxViewFunctions
\* function handles
MaxViewTypes == 3
MaxViewFunctions == 2

\* the sequences over S of length at most n
RECURSIVE SeqsUpTo(_, _)
SeqsUpTo(S, n) ==
    IF n = 0 THEN {<<>>}
    ELSE LET shorter == SeqsUpTo(S, n - 1)
         IN  shorter \cup {Append(q, x) : q \in shorter, x \in S}

\* the module 1::E with no type and no function handle: its module handles
\* are 1::E (self), 1::D and 2::D
ViewBase ==
    [self_module_handle_idx |-> 0,
     address_identifiers |-> <<1, 2>>,
     identifiers |-> <<"E", "U", "D", "S", "k", "f">>,
     module_handles |-> <<[address |-> 0, name |-> 0], [address |-> 0, name |-> 2],
                          [address |-> 1, name |-> 2]>>,
     data_type_handles |-> <<>>,
     signatures |-> << <<>>, << <<"U64">> >> >>,
     function_handles |-> <<>>]

\* the type handles of a dependency: U or S of one of the three modules, a
\* module's types having the abilities that tell them from the other modules'
ViewTypeHandles ==
    {[module |-> m, name |-> n,
      abilities |-> IF m = 0 THEN {"key"} ELSE IF m = 1 THEN {"copy", "drop"}
                    ELSE {"store"},
      type_parameters |-> <<>>] : m \in 0 .. 2, n \in {1, 3}}

\* the function handles of a dependency: k or f, of the module itself or of
\* 1::D, with a parameter signature that may lie outside the signature pool
ViewFunctionHandles ==
    {[module |-> m, name |-> n, parameters |-> p, return_ |-> 0,
      type_parameters |-> <<>>] : m \in 0 .. 1, n \in {4, 5}, p \in 0 .. 2}

ViewModules ==
    {[ViewBase EXCEPT !.data_type_handles = ts] :
        ts \in SeqsUpTo(ViewTypeHandles, MaxViewTypes)} \cup
    {[ViewBase EXCEPT !.function_handles = fs] :
        fs \in SeqsUpTo(ViewFunctionHandles, MaxViewFunctions)}

ViewModuleNames == {"E", "D"}
ViewTypeNames == {"U", "S"}
ViewFunctionNames == {"k", "f"}

InitView ==
    /\ ctx = Context_new(<<>>, IdM)
    /\ last = NoOp
    /\ pc = "open"
    /\ nops = 0
    /\ dth = [s \in QNames |-> NoDth]
    /\ materialized = NotMaterialized
    /\ handed = NoLabels
    /\ owned = NothingOwned
    /\ viewed \in {NotViewed(dep) : dep \in ViewModules}
    /\ taken = NothingTaken
    /\ pool = EmptyPool
    /\ plast = [k |-> 0, seen |-> FALSE, len |-> 0, ok |-> FALSE, idx |-> NoIdx]
    /\ phist = <<>>

ViewStep(v) ==
    /\ viewed' = v
    /\ UNCHANGED <<ctx, last, pc, nops, dth, materialized, handed, owned, taken, pvars>>

\* CompiledDependencyView::new(dep)
ViewNew ==
    /\ ~viewed.built
    /\ ViewStep([viewed EXCEPT !.built = TRUE,
                               !.view = CompiledDependencyView_new(viewed.dep),
                               !.op = "new"])

\* view.data_type_handle(module, name)
ViewDataTypeHandle(module, name) ==
    /\ viewed.built
    /\ LET r == View_data_type_handle(viewed.view, module, name)
       IN  ViewStep([viewed EXCEPT !.op = "data_type_handle",
                                   !.args = <<module, name>>,
                                   !.some = r.some, !.panic = FALSE, !.val = r.v])

\* view.function_signature(name)
ViewFunctionSignature(name) ==
    /\ viewed.built
    /\ LET r == View_function_signature(viewed.view, name)
       IN  ViewStep([viewed EXCEPT !.op = "function_signature",
                                   !.args = <<name>>,
                                   !.some = r.some, !.panic = r.panic, !.val = r.v])

NextView ==
    \/ ViewNew
    \/ \E module \in ViewModuleNames, name \in ViewTypeNames :
           ViewDataTypeHandle(module, name)
    \/ \E name \in ViewFunctionNames : ViewFunctionSignature(name)

SpecView == InitView /\ [][NextView]_vars

(***************************************************************************)
(* SpecBatch: one Context of a multi-unit batch.  Its caller takes the     *)
(* Dependency Store out of it and gives a store it holds back, and         *)
(* resolves foreign types and functions before, between and after.         *)
(***************************************************************************)

BatchAliases == {"X", "Y"}
BatchImportIds == {IdD, IdE}
BatchQNames == [module : BatchAliases, name : TypeNames]
\* the module added to a store; 1::F is not among the supplied dependencies
BatchModules == {"ModF"}

InitBatch ==
    /\ ctx = Context_new(SuppliedDependencies, IdM)
    /\ last = NoOp
    /\ pc = "open"
    /\ nops = 0
    /\ dth = [s \in QNames |-> NoDth]
    /\ materialized = NotMaterialized
    /\ handed = NoLabels
    /\ owned = NothingOwned
    /\ viewed = NotViewed(ModE)
    /\ taken = NothingTaken
    /\ pool = EmptyPool
    /\ plast = [k |-> 0, seen |-> FALSE, len |-> 0, ok |-> FALSE, idx |-> NoIdx]
    /\ phist = <<>>

\* let deps = context.take_dependencies(): the caller holds one more store
TakeDependencies ==
    /\ Ready
    /\ LET r == take_dependencies(ctx)
       IN  /\ Record("take_dependencies", <<>>, FALSE, r)
           /\ taken' = [stores |-> Append(taken.stores, r.val), before |-> ctx]
    /\ UNCHANGED <<dth, handed>>

\* context.restore_dependencies(deps), deps the i-th store the caller holds:
\* the store is moved into the call
RestoreDependencies(i) ==
    /\ Ready
    /\ i \in 1 .. Len(taken.stores)
    /\ Record("restore_dependencies", <<taken.stores[i]>>, FALSE,
              restore_dependencies(ctx, taken.stores[i]))
    /\ taken' = [taken EXCEPT !.stores = SubSeq(@, 1, i - 1) \o SubSeq(@, i + 1, Len(@))]
    /\ UNCHANGED <<dth, handed>>

\* add_compiled_dependency between the units of the batch
BatchAddCompiledDependency(tag) ==
    /\ Ready
    /\ Finish("add_compiled_dependency", <<tag>>,
              ModuleSelfId(DepModule(tag)) \notin DOMAIN ctx.dependencies,
              add_compiled_dependency(ctx, tag))
    /\ UNCHANGED dth

NextBatch ==
    \/ \E id \in BatchImportIds, alias \in BatchAliases : DeclareImport(id, alias)
    \/ \E s \in BatchQNames : DataTypeHandleIndex(s)
    \/ \E m \in BatchAliases, f \in FunNames : FunctionHandle(m, f)
    \/ TakeDependencies
    \/ \E i \in 1 .. MaxOps : RestoreDependencies(i)
    \/ \E tag \in BatchModules : BatchAddCompiledDependency(tag)

SpecBatch == InitBatch /\ [][NextBatch]_vars

(***************************************************************************)
(* SpecPool: one pool, driven only through get_or_add_item.                *)
(***************************************************************************)

\* the number of distinct keys the pool specification names
NumPoolValues == 4
\* a pool starts empty, or at most PoolGap entries short of TABLE_MAX_SIZE
PoolGap == 2
\* at most MaxCalls calls are made with each key
MaxCalls == 3

PoolValues == 1 .. NumPoolValues

PoolFills == {0} \cup {TABLE_MAX_SIZE - g : g \in 0 .. PoolGap}

NoCall == [k |-> 0, seen |-> FALSE, len |-> 0, ok |-> FALSE, idx |-> NoIdx]

NoHist == [calls |-> 0, oks |-> 0, grew |-> 0, idxs |-> {}, firstGrew |-> FALSE]

\* a pool into which `fill` keys, none of them in PoolValues, were interned
InitPool ==
    /\ pool \in {[fill |-> f, map |-> <<>>] : f \in PoolFills}
    /\ plast = NoCall
    /\ phist = [v \in PoolValues |-> NoHist]
    /\ ctx = Context_new(<<>>, IdM)
    /\ last = NoOp
    /\ pc = "open"
    /\ nops = 0
    /\ dth = [s \in QNames |-> NoDth]
    /\ materialized = NotMaterialized
    /\ handed = NoLabels
    /\ owned = NothingOwned
    /\ viewed = NotViewed(ModE)
    /\ taken = NothingTaken

\* one call get_or_add_item(&mut pool, k)
PoolGetOrAdd(k) ==
    /\ phist[k].calls < MaxCalls
    /\ LET r == get_or_add_item(pool, k)
           grown == PoolLen(r.m) > PoolLen(pool)
       IN  /\ pool' = r.m
           /\ plast' = [k |-> k, seen |-> PoolContains(pool, k),
                        len |-> PoolLen(pool), ok |-> r.ok, idx |-> r.idx]
           /\ phist' = [phist EXCEPT ![k] =
                  [calls |-> @.calls + 1,
                   oks |-> @.oks + (IF r.ok THEN 1 ELSE 0),
                   grew |-> @.grew + (IF grown THEN 1 ELSE 0),
                   idxs |-> IF r.ok THEN @.idxs \cup {r.idx} ELSE @.idxs,
                   firstGrew |-> IF @.calls = 0 THEN grown ELSE @.firstGrew]]
    /\ UNCHANGED cvars

NextPool == \E k \in PoolValues : PoolGetOrAdd(k)

SpecPool == InitPool /\ [][NextPool]_vars

(***************************************************************************)
(* Claims about the interning pool                                         *)
(***************************************************************************)

\* C1: over the calls made with one key, once a call has returned an index
\* every call has returned that same index, and the pool grew exactly once,
\* on the first of those calls.
C1_IdempotentInterning ==
    \A v \in PoolValues :
        phist[v].oks >= 1 =>
            /\ phist[v].oks = phist[v].calls
            /\ Cardinality(phist[v].idxs) = 1
            /\ phist[v].grew = 1
            /\ phist[v].firstGrew

C1_Witness ==
    \E v \in PoolValues : phist[v].calls = MaxCalls /\ phist[v].oks = MaxCalls

\* C2 as stated: an unseen value is accepted whenever the pool holds fewer
\* than 65536 entries.
C2_Original ==
    (plast.k # 0 /\ ~plast.seen /\ plast.len < 65536) => plast.ok

\* C2 amended: an unseen value is accepted, at index len, exactly when the
\* pool holds fewer than TABLE_MAX_SIZE = 65535 entries; with 65535 entries
\* it is rejected.
C2_Capacity ==
    (plast.k # 0 /\ ~plast.seen) =>
        /\ (plast.len < TABLE_MAX_SIZE => plast.ok /\ plast.idx = plast.len)
        /\ (plast.len >= TABLE_MAX_SIZE => ~plast.ok)

C2_Witness ==
    /\ plast.k # 0 /\ ~plast.seen /\ ~plast.ok
    /\ plast.len = TABLE_MAX_SIZE
    /\ \E v \in PoolValues : PoolContains(pool, v) /\ pool.map[v] = TABLE_MAX_SIZE - 1

\* C3: a rejected call leaves the pool as it was, and after a rejection a
\* call with an interned key succeeds with the index the key first received.
C3_OverflowLeavesPool ==
    [][/\ (plast'.k # 0 /\ ~plast'.ok) => pool' = pool
       /\ (plast.k # 0 /\ ~plast.ok /\ plast'.seen) =>
              /\ plast'.ok
              /\ phist[plast'.k].idxs = {plast'.idx}
              /\ pool' = pool]_vars

C3_Witness ==
    /\ plast.seen /\ plast.ok
    /\ PoolLen(pool) = TABLE_MAX_SIZE
    /\ \E v \in PoolValues : phist[v].calls > phist[v].oks

(***************************************************************************)
(* Claims about the Context                                                *)
(***************************************************************************)

\* the key a pool holds at index i
KeyAt(m, i) == CHOOSE k \in DOMAIN m.map : m.map[k] = i

\* a pool uses each index of [0, len) exactly once
Dense(m) ==
    /\ \A k1, k2 \in DOMAIN m.map : k1 # k2 => m.map[k1] # m.map[k2]
    /\ {m.map[k] : k \in DOMAIN m.map} = m.fill .. (PoolLen(m) - 1)

\* the function-handle table uses each index of [0, len) exactly once
FunctionTableDense ==
    LET fh == ctx.function_handles IN
    /\ \A k1, k2 \in DOMAIN fh : k1 # k2 => fh[k1].idx # fh[k2].idx
    /\ {fh[k].idx : k \in DOMAIN fh} = 0 .. (Cardinality(DOMAIN fh) - 1)

\* C4: every simple pool and the function-handle table use each index of
\* [0, size) exactly once; materialize_pools never fails a density check, and
\* each vector it returns has the table's size as its length and every
\* entry at the position of its index.
C4_PoolDensity ==
    /\ \A p \in SimplePools : Dense(ctx[p])
    /\ FunctionTableDense
    /\ materialized.err # "panic:density"
    /\ pc = "done" =>
          /\ \A p \in SimplePools :
                /\ materialized.pools[p].len = PoolLen(ctx[p])
                /\ \A k \in DOMAIN ctx[p].map :
                      materialized.pools[p].at[ctx[p].map[k]] = k
          /\ materialized.pools["function_handles"].len =
                 Cardinality(DOMAIN ctx.function_handles)
          /\ \A k \in DOMAIN ctx.function_handles :
                 materialized.pools["function_handles"].at[ctx.function_handles[k].idx]
                     = ctx.function_handles[k].handle

C4_Witness ==
    /\ pc = "done" /\ materialized.ok
    /\ Cardinality(DOMAIN ctx.function_handles) >= 1
    /\ PoolLen(ctx.data_type_handles) >= 2
    /\ PoolLen(ctx.signatures) >= 2

\* C5 as stated: the first resolution of an imported type adds one entry to
\* the type-handle pool, and every later resolution of the same name, whatever
\* happened in between, returns the index of the first and adds none.
C5_Original ==
    [][(last'.op = "data_type_handle_index" /\ last'.ok) =>
          LET s == last'.args[1] IN
          IF last'.fresh
          THEN PoolLen(ctx'.data_type_handles) = PoolLen(ctx.data_type_handles) + 1
          ELSE /\ dth[s].first # NoIdx => last'.val = dth[s].first
               /\ PoolLen(ctx'.data_type_handles) = PoolLen(ctx.data_type_handles)]_vars

\* C5 amended: the first resolution adds at most one entry (none when an
\* equal handle is already interned); a later resolution adds none and,
\* provided no declare_data_type_handle_index call for the name came in
\* between, returns the index of the first.
C5_ImportRoundTrip ==
    [][(last'.op = "data_type_handle_index" /\ last'.ok) =>
          LET s == last'.args[1]
              h == ctx'.structs[s]
          IN  IF last'.fresh
              THEN /\ PoolLen(ctx'.data_type_handles) =
                        PoolLen(ctx.data_type_handles)
                          + (IF PoolContains(ctx.data_type_handles, h) THEN 0 ELSE 1)
                   /\ ctx'.data_type_handles.map[h] = last'.val
              ELSE /\ ctx'.data_type_handles = ctx.data_type_handles
                   /\ (dth[s].first # NoIdx /\ ~dth[s].redecl)
                         => last'.val = dth[s].first]_vars

C5_Witness ==
    /\ last.op = "data_type_handle_index" /\ last.ok /\ ~last.fresh
    /\ dth[last.args[1]].first = last.val
    /\ ~dth[last.args[1]].redecl

\* the handle a compiled module declares for its own type `name`
DeclaredType(dep, name) ==
    LET own == {i \in 1 .. Len(dep.data_type_handles) :
                   /\ dep.data_type_handles[i].module = dep.self_module_handle_idx
                   /\ dep.identifiers[dep.data_type_handles[i].name + 1] = name}
    IN  IF own = {} THEN [some |-> FALSE, v |-> NoIdx]
        ELSE [some |-> TRUE, v |-> dep.data_type_handles[CHOOSE i \in own : TRUE]]

\* C6: the local handle created by importing a type has the abilities and
\* type parameters its module declares for it, the local identifier index of
\* its name, and the local module-handle index of its module's identity.
C6_ImportPreservesShape ==
    (last.op = "data_type_handle_index" /\ last.ok /\ last.fresh) =>
        LET s == last.args[1]
            id == ctx.modules[s.module].ident
            decl == DeclaredType(DepModule(ctx.dependencies[id]), s.name)
            h == ctx.structs[s]
        IN  /\ decl.some
            /\ h.abilities = decl.v.abilities
            /\ h.type_parameters = decl.v.type_parameters
            /\ h.name = ctx.identifiers.map[s.name]
            /\ h.module = ctx.module_handles.map[
                   [address |-> ctx.address_identifiers.map[id.address],
                    name |-> ctx.identifiers.map[id.name]]]

\* the local type handle at index li names the type the foreign handle at
\* index fi of the dependency names: same module identity, same type name
LeafMatches(view, c, fi, li) ==
    LET info == source_struct_info(view, fi) IN
    /\ info.some
    /\ li \in PoolIndices(c.data_type_handles)
    /\ LET h == KeyAt(c.data_type_handles, li)
           mh == KeyAt(c.module_handles, h.module)
       IN  /\ KeyAt(c.address_identifiers, mh.address) = info.ident.address
           /\ KeyAt(c.identifiers, mh.name) = info.ident.name
           /\ KeyAt(c.identifiers, h.name) = info.name

RECURSIVE TokenIsomorphic(_, _, _, _)
TokenIsomorphic(view, c, foreign, local) ==
    /\ foreign[1] = local[1]
    /\ IF foreign[1] \in {"Vector", "Reference", "MutableReference"}
       THEN TokenIsomorphic(view, c, foreign[2], local[2])
       ELSE IF foreign[1] = "DataType"
       THEN LeafMatches(view, c, foreign[2], local[2])
       ELSE IF foreign[1] = "DataTypeInstantiation"
       THEN /\ LeafMatches(view, c, foreign[2], local[2])
            /\ Len(foreign[3]) = Len(local[3])
            /\ \A i \in 1 .. Len(foreign[3]) :
                   TokenIsomorphic(view, c, foreign[3][i], local[3][i])
       ELSE foreign = local

TokensIsomorphic(view, c, foreign, local) ==
    /\ Len(foreign) = Len(local)
    /\ \A i \in 1 .. Len(foreign) : TokenIsomorphic(view, c, foreign[i], local[i])

\* C7: the signature stored for an imported function is token by token
\* isomorphic to the dependency's, each named-type leaf carrying the local
\* index of the type with the foreign handle's module identity and name.
C7_ReindexIsomorphic ==
    (last.op = "function_handle" /\ last.ok /\ last.fresh) =>
        LET m == last.args[1]
            f == last.args[2]
            view == CompiledDependencyView_new(
                        DepModule(ctx.dependencies[ctx.modules[m].ident]))
            foreign == View_function_signature(view, f).v
            local == ctx.function_signatures[<<m, f>>]
        IN  /\ TokensIsomorphic(view, ctx, foreign.parameters, local.parameters)
            /\ TokensIsomorphic(view, ctx, foreign.return_, local.return_)

\* the pair (m, f) or the type s is not yet local, its alias is bound, and the
\* alias's module was not supplied as a dependency
MissingDependencyOf(c, alias) ==
    /\ alias \in DOMAIN c.modules
    /\ c.modules[alias].ident \notin DOMAIN c.dependencies

FunctionNotLocal(c, m, f) ==
    /\ <<m, f>> \notin DOMAIN c.function_handles
    /\ <<m, f>> \notin DOMAIN c.function_signatures

\* C8 as stated: resolving a not-yet-local type or function through any
\* alias bound to an unsupplied module fails with DependencyMissing and
\* leaves the Context unchanged.
C8_Original ==
    [][/\ (/\ last'.op = "data_type_handle_index"
           /\ last'.args[1] \notin DOMAIN ctx.structs
           /\ MissingDependencyOf(ctx, last'.args[1].module))
          => (last'.err = "DependencyMissing" /\ ctx' = ctx)
       /\ (/\ last'.op = "function_handle"
           /\ FunctionNotLocal(ctx, last'.args[1], last'.args[2])
           /\ MissingDependencyOf(ctx, last'.args[1]))
          => (last'.err = "DependencyMissing" /\ ctx' = ctx)]_vars

\* C8 amended: the same, for every alias other than Self (a name resolved
\* through Self fails as an unbound definition, whatever Self is bound to).
C8_MissingDependency ==
    [][/\ (/\ last'.op = "data_type_handle_index"
           /\ last'.args[1] \notin DOMAIN ctx.structs
           /\ last'.args[1].module # SELF_MODULE_NAME
           /\ MissingDependencyOf(ctx, last'.args[1].module))
          => (last'.err = "DependencyMissing" /\ ctx' = ctx)
       /\ (/\ last'.op = "function_handle"
           /\ FunctionNotLocal(ctx, last'.args[1], last'.args[2])
           /\ last'.args[1] # SELF_MODULE_NAME
           /\ MissingDependencyOf(ctx, last'.args[1]))
          => (last'.err = "DependencyMissing" /\ ctx' = ctx)
       /\ (/\ last'.op = "data_type_handle_index"
           /\ last'.args[1] \notin DOMAIN ctx.structs
           /\ last'.args[1].module = SELF_MODULE_NAME)
          => (last'.err = "UnboundDefinition" /\ ctx' = ctx)
       /\ (/\ last'.op = "function_handle"
           /\ FunctionNotLocal(ctx, last'.args[1], last'.args[2])
           /\ last'.args[1] = SELF_MODULE_NAME)
          => (last'.err = "UnboundDefinition" /\ ctx' = ctx)]_vars

C8_Witness ==
    /\ last.op = "function_handle" /\ last.err = "DependencyMissing"
    /\ last.args[1] \in DOMAIN ctx.modules
    /\ ctx.modules[last.args[1]].ident = IdD2
    /\ PoolLen(ctx.data_type_handles) >= 1

\* C9: a declare_function call that repeats the successful call before it
\* succeeds and changes nothing: the pair keeps its one handle index.
C9_DuplicateDeclaration ==
    [][(last'.op = "declare_function" /\ last'.repeat) =>
          /\ last'.ok
          /\ ctx' = ctx
          /\ <<last'.args[1], last'.args[2]>> \in DOMAIN ctx.function_handles]_vars

C9_Witness ==
    /\ last.op = "declare_function" /\ last.repeat /\ last.ok
    /\ Cardinality(DOMAIN ctx.function_handles) = 1

\* C10 as stated: once a pair is registered, its stored handle and its index
\* never change.
C10_Original ==
    [][\A k \in DOMAIN ctx.function_handles :
          /\ k \in DOMAIN ctx'.function_handles
          /\ ctx'.function_handles[k] = ctx.function_handles[k]]_vars

\* C10 amended: once a pair is registered its index never changes, and its
\* stored handle changes only by a successful declare_function call for that
\* pair, which stores the handle of its own signature; function_handle never
\* changes it.
C10_HandleIndexImmutable ==
    [][\A k \in DOMAIN ctx.function_handles :
          /\ k \in DOMAIN ctx'.function_handles
          /\ ctx'.function_handles[k].idx = ctx.function_handles[k].idx
          /\ ctx'.function_handles[k] # ctx.function_handles[k] =>
                /\ last'.op = "declare_function" /\ last'.ok
                /\ <<last'.args[1], last'.args[2]>> = k
                /\ ctx'.function_handles[k].handle.parameters =
                       ctx'.signatures.map[last'.args[3].parameters]
                /\ ctx'.function_handles[k].handle.return_ =
                       ctx'.signatures.map[last'.args[3].return_]]_vars

C10_Witness ==
    /\ last.op = "declare_function" /\ last.ok /\ ~last.fresh /\ ~last.repeat
    /\ Cardinality(DOMAIN ctx.function_handles) >= 1

(***************************************************************************)
(* Claims about the definition tables, constants, fields and the store     *)
(***************************************************************************)

\* the definition table a declare_*_definition_index call works on
DefTableOf(op) ==
    IF op = "declare_struct_definition_index" THEN "struct_defs" ELSE "enum_defs"

DeclareDefinitionOps ==
    {"declare_struct_definition_index", "declare_enum_definition_index"}

\* C11: the definition tables use each index of [0, size) exactly once, and a
\* successful declaration of a name not yet declared returns the number of
\* names declared before it and adds that one entry, leaving the others.
C11_DefinitionIndicesDense ==
    [][/\ \A t \in DefTables : Dense(ctx'[t])
       /\ (last'.op \in DeclareDefinitionOps /\ last'.ok /\ last'.fresh) =>
              LET t == DefTableOf(last'.op) IN
              /\ last'.val = PoolLen(ctx[t])
              /\ PoolLen(ctx'[t]) = PoolLen(ctx[t]) + 1
              /\ ctx'[t].map[last'.args[1]] = last'.val
              /\ \A n \in DOMAIN ctx[t].map : ctx'[t].map[n] = ctx[t].map[n]]_vars

C11_Witness ==
    /\ last.op = "declare_struct_definition_index" /\ last.ok /\ last.fresh
    /\ last.val = 1
    /\ DOMAIN ctx.struct_defs.map = DefNames
    /\ ctx.struct_defs.fill = 0

\* C12: declaring a name that is already declared succeeds and returns the
\* index of its first declaration, whatever the size of the table.
C12_RedeclareNeverFails ==
    [][(last'.op \in DeclareDefinitionOps /\ ~last'.fresh) =>
          /\ last'.ok
          /\ last'.val = ctx[DefTableOf(last'.op)].map[last'.args[1]]]_vars

\* C13 as stated: a declare_constant call for a name already declared leaves
\* the index bound to the name as it was, and named_constant_index returns
\* the bound index.
C13_Original ==
    [][/\ (last'.op = "declare_constant" /\ ~last'.fresh) =>
              ctx'.named_constants[last'.args[1]] = ctx.named_constants[last'.args[1]]
       /\ (last'.op = "named_constant_index"
             /\ last'.args[1] \in DOMAIN ctx.named_constants) =>
              (last'.ok /\ last'.val = ctx.named_constants[last'.args[1]])]_vars

\* C13 amended: the last registration wins.  A successful declare_constant
\* (name, c) binds name to the constant-pool index of c, replacing an earlier
\* binding; a failed one and every other operation leave the bindings as they
\* were; named_constant_index returns the bound index.
C13_LastRegistrationWins ==
    [][/\ IF last'.op = "declare_constant" /\ last'.ok
          THEN /\ PoolContains(ctx'.constant_pool, last'.args[2])
               /\ ctx'.named_constants[last'.args[1]] =
                      ctx'.constant_pool.map[last'.args[2]]
               /\ \A n \in DOMAIN ctx.named_constants \ {last'.args[1]} :
                      ctx'.named_constants[n] = ctx.named_constants[n]
          ELSE ctx'.named_constants = ctx.named_constants
       /\ (last'.op = "named_constant_index"
             /\ last'.args[1] \in DOMAIN ctx.named_constants) =>
              (last'.ok /\ last'.val = ctx.named_constants[last'.args[1]])]_vars

C13_Witness ==
    /\ last.op = "named_constant_index" /\ last.ok
    /\ PoolLen(ctx.constant_pool) = 2
    /\ last.val = 1

\* C14: a field or variant once registered keeps its data through every
\* later operation, a later declaration for the same key included, and field
\* (resp. variant) returns the data (resp. the tag) of the first registration.
C14_FirstRegistrationAuthoritative ==
    [][/\ \A k \in DOMAIN ctx.fields :
              k \in DOMAIN ctx'.fields /\ ctx'.fields[k] = ctx.fields[k]
       /\ \A k \in DOMAIN ctx.variants :
              k \in DOMAIN ctx'.variants /\ ctx'.variants[k] = ctx.variants[k]
       /\ (last'.op = "declare_field" /\ last'.fresh) =>
              ctx'.fields[<<last'.args[1], last'.args[2]>>] = last'.args[3]
       /\ (last'.op = "declare_variant" /\ last'.fresh) =>
              ctx'.variants[<<last'.args[1], last'.args[2]>>] = last'.args[3]
       /\ (last'.op = "field" /\ <<last'.args[1], last'.args[2]>> \in DOMAIN ctx.fields) =>
              (last'.ok /\ last'.val = ctx.fields[<<last'.args[1], last'.args[2]>>])
       /\ (last'.op = "variant"
             /\ <<last'.args[1], last'.args[2]>> \in DOMAIN ctx.variants) =>
              (last'.ok /\ last'.val = ctx.variants[<<last'.args[1], last'.args[2]>>][3])
      ]_vars

C14_Witness ==
    /\ last.op = "declare_field" /\ last.ok /\ ~last.fresh
    /\ ctx.fields[<<last.args[1], last.args[2]>>] # last.args[3]

\* C15: add_compiled_dependency of a module whose identity is already in the
\* store fails with DuplicateDependency and leaves the store, and the rest of
\* the Context, unchanged.
C15_DuplicateDependency ==
    [][(last'.op = "add_compiled_dependency" /\ ~last'.fresh) =>
          /\ last'.err = "DuplicateDependency"
          /\ ctx'.dependencies = ctx.dependencies
          /\ ctx' = ctx]_vars

C15_Witness ==
    /\ last.op = "add_compiled_dependency" /\ last.err = "DuplicateDependency"
    /\ last.args[1] = "ModD1"
    /\ IdD \in DOMAIN ctx.dependencies /\ ctx.dependencies[IdD] = "ModD"

(***************************************************************************)
(* Claims about resolution, imports and aborts                             *)
(***************************************************************************)

\* the view of the dependency the bound alias names, when it was supplied
ViewOfAlias(c, alias) ==
    CompiledDependencyView_new(DepModule(c.dependencies[c.modules[alias].ident]))

\* the dependency's view has an entry for the type under the module's name
TypeExported(c, s) ==
    <<c.modules[s.module].ident.name, s.name>> \in DOMAIN ViewOfAlias(c, s.module).structs

\* the dependency's view has an entry for the function
FunctionExported(c, m, f) == f \in DOMAIN ViewOfAlias(c, m).functions

\* C16 as stated: resolving a type or function that is not yet local fails
\* with UnboundAlias when the alias is unbound, else with DependencyMissing
\* when the module was not supplied, else with UnboundDefinition when the
\* view does not export the name, and a type resolves otherwise.
C16_Original ==
    [][/\ (last'.op = "data_type_handle_index"
             /\ last'.args[1] \notin DOMAIN ctx.structs) =>
              LET s == last'.args[1] IN
              IF s.module \notin DOMAIN ctx.modules THEN last'.err = "UnboundAlias"
              ELSE IF MissingDependencyOf(ctx, s.module)
              THEN last'.err = "DependencyMissing"
              ELSE IF ~TypeExported(ctx, s) THEN last'.err = "UnboundDefinition"
              ELSE last'.ok
       /\ (last'.op = "function_handle"
             /\ FunctionNotLocal(ctx, last'.args[1], last'.args[2])) =>
              LET m == last'.args[1] IN
              IF m \notin DOMAIN ctx.modules THEN last'.err = "UnboundAlias"
              ELSE IF MissingDependencyOf(ctx, m) THEN last'.err = "DependencyMissing"
              ELSE IF ~FunctionExported(ctx, m, last'.args[2])
              THEN last'.err = "UnboundDefinition"
              ELSE TRUE]_vars

\* C16 amended: the same order for every alias other than Self; through Self
\* the resolution fails with UnboundDefinition before anything is looked up;
\* and an exported type resolves unless interning its handle fails
\* (TableOverflow) or the alias's module handle is missing from the
\* module-handle pool (abort).
C16_ResolutionFailures ==
    [][/\ (last'.op = "data_type_handle_index"
             /\ last'.args[1] \notin DOMAIN ctx.structs) =>
              LET s == last'.args[1] IN
              IF s.module = SELF_MODULE_NAME THEN last'.err = "UnboundDefinition"
              ELSE IF s.module \notin DOMAIN ctx.modules THEN last'.err = "UnboundAlias"
              ELSE IF MissingDependencyOf(ctx, s.module)
              THEN last'.err = "DependencyMissing"
              ELSE IF ~TypeExported(ctx, s) THEN last'.err = "UnboundDefinition"
              ELSE IF ~PoolContains(ctx.module_handles, ctx.modules[s.module].handle)
              THEN last'.err = "panic"
              ELSE last'.ok \/ last'.err = "TableOverflow"
       /\ (last'.op = "function_handle"
             /\ FunctionNotLocal(ctx, last'.args[1], last'.args[2])) =>
              LET m == last'.args[1] IN
              IF m = SELF_MODULE_NAME THEN last'.err = "UnboundDefinition"
              ELSE IF m \notin DOMAIN ctx.modules THEN last'.err = "UnboundAlias"
              ELSE IF MissingDependencyOf(ctx, m) THEN last'.err = "DependencyMissing"
              ELSE IF ~FunctionExported(ctx, m, last'.args[2])
              THEN last'.err = "UnboundDefinition"
              ELSE TRUE]_vars

C16_Witness ==
    /\ last.op = "data_type_handle_index" /\ last.err = "UnboundDefinition"
    /\ last.args[1].module # SELF_MODULE_NAME
    /\ last.args[1].module \in DOMAIN ctx.modules
    /\ ~MissingDependencyOf(ctx, last.args[1].module)
    /\ Cardinality(DOMAIN ctx.modules) >= 2

\* C17: an import of a function registered under another alias of the same
\* module yields that registration's index, an import of a type imported
\* under another alias of the same module yields that import's index, and the
\* function-handle table never holds equal handles at different indices.
C17_ImportsCollapse ==
    [][/\ (last'.op = "function_handle" /\ last'.ok /\ last'.fresh) =>
              \A k \in DOMAIN ctx.function_handles :
                  (/\ k[2] = last'.args[2]
                   /\ k[1] \in DOMAIN ctx.modules
                   /\ ctx.modules[k[1]].ident = ctx.modules[last'.args[1]].ident
                   /\ ctx.function_handles[k].handle =
                          ctx'.function_handles[<<last'.args[1], last'.args[2]>>].handle)
                  => last'.val = ctx.function_handles[k].idx
       /\ (last'.op = "data_type_handle_index" /\ last'.ok /\ last'.fresh) =>
              \A s2 \in QNames :
                  (/\ dth[s2].first # NoIdx /\ ~dth[s2].redecl
                   /\ s2.name = last'.args[1].name
                   /\ s2.module \in DOMAIN ctx.modules
                   /\ ctx.modules[s2.module].ident =
                          ctx.modules[last'.args[1].module].ident
                   /\ s2 \in DOMAIN ctx.structs
                   /\ ctx.structs[s2] = ctx'.structs[last'.args[1]])
                  => last'.val = dth[s2].first
       /\ \A k1, k2 \in DOMAIN ctx'.function_handles :
              ctx'.function_handles[k1].handle = ctx'.function_handles[k2].handle
                  => ctx'.function_handles[k1].idx = ctx'.function_handles[k2].idx]_vars

\* C18: no operation aborts: no call ends in a failed unwrap, a failed
\* assertion or an out-of-range index.
C18_NoAbort == pc # "aborted" /\ last.err # "panic"

\* the operations that return the index of a value in a simple pool
IndexOps ==
    [identifier_index |-> "identifiers", address_index |-> "address_identifiers",
     signature_index |-> "signatures"]

\* C19: no step removes or re-indexes an entry of a simple pool or a key of
\* the function-handle table, a lookup of an interned value returns the index
\* it has, and the materialized vectors hold each value at its index.
C19_MonotoneStableIndices ==
    [][/\ \A p \in SimplePools :
              /\ PoolLen(ctx'[p]) >= PoolLen(ctx[p])
              /\ (ctx'[p].fill = ctx[p].fill \/ ctx[p] = EmptyPool)
              /\ \A k \in DOMAIN ctx[p].map :
                     k \in DOMAIN ctx'[p].map /\ ctx'[p].map[k] = ctx[p].map[k]
       /\ \A k \in DOMAIN ctx.function_handles :
              /\ k \in DOMAIN ctx'.function_handles
              /\ ctx'.function_handles[k].idx = ctx.function_handles[k].idx
       /\ (last'.op \in DOMAIN IndexOps
             /\ PoolContains(ctx[IndexOps[last'.op]], last'.args[1])) =>
              (last'.ok /\ last'.val = ctx[IndexOps[last'.op]].map[last'.args[1]])
       /\ (last'.op = "materialize_pools" /\ last'.ok) =>
              \A p \in SimplePools : \A k \in DOMAIN ctx[p].map :
                  materialized'.pools[p].at[ctx[p].map[k]] = k]_vars

C19_Witness ==
    /\ last.op = "materialize_pools" /\ last.ok
    /\ Cardinality(DOMAIN ctx.identifiers.map) >= 2
    /\ Cardinality(DOMAIN ctx.module_handles.map) >= 2
    /\ \A k \in DOMAIN ctx.identifiers.map :
           materialized.pools["identifiers"].at[ctx.identifiers.map[k]] = k

\* C20: the function-handle table and the function-signature table have the
\* same key set, and neither the cardinality check of materialize_pools nor
\* an assertion of ensure_function_declared fails.
C20_FunctionTablesAgree ==
    /\ DOMAIN ctx.function_handles = DOMAIN ctx.function_signatures
    /\ materialized.err # "panic:cardinality"
    /\ ~(/\ last.op = "function_handle" /\ last.err = "panic"
         /\ (<<last.args[1], last.args[2]>> \in DOMAIN ctx.function_handles)
                # (<<last.args[1], last.args[2]>> \in DOMAIN ctx.function_signatures))

(***************************************************************************)
(* Claims about Context::new and the Dependency Store                      *)
(***************************************************************************)

\* C21: immediately after Context::new the alias Self is bound:
\* module_ident(Self) succeeds and names the current module, and
\* module_handle_index(Self) succeeds.
C21_NewImportsSelf ==
    last.op = "new" =>
        /\ module_ident(ctx, SELF_MODULE_NAME).ok
        /\ module_ident(ctx, SELF_MODULE_NAME).val = ctx.source_map.module_name_opt
        /\ module_handle_index(ctx, SELF_MODULE_NAME).ok

\* C22: no operation other than add_compiled_dependency changes the
\* Dependency Store, add_compiled_dependency keeps every entry already
\* stored, and materialize_pools returns the store the Context holds.
C22_StoreHandedBack ==
    [][/\ last'.op # "add_compiled_dependency" => ctx'.dependencies = ctx.dependencies
       /\ \A id \in DOMAIN ctx.dependencies :
              id \in DOMAIN ctx'.dependencies
                  /\ ctx'.dependencies[id] = ctx.dependencies[id]
       /\ (last'.op = "materialize_pools" /\ last'.ok) =>
              materialized'.dependencies = ctx.dependencies]_vars

C22_Witness ==
    /\ last.op = "materialize_pools" /\ last.ok
    /\ materialized.dependencies = (IdD :> "ModD") @@ (IdE :> "ModE")
    /\ DOMAIN ctx.structs # {}

\* C23: the module of an owned entry is boxed before its view is built and
\* never relocates while the entry lives: the view of every live entry
\* borrows from the place its module is at, that place holds the module the
\* view was built from, the place is the same after every move of the entry,
\* and borrow_view yields a reference to the view inside the entry.
C23_ModuleNeverRelocates ==
    [][/\ \A e \in Entries(owned') :
              /\ e.module.boxed
              /\ e.view.borrows = ModuleAt(e)
              /\ Deref(owned', e.view.borrows) = e.view.of
       /\ \A id \in DOMAIN owned.table \cap DOMAIN owned'.table :
              ModuleAt(owned'.table[id]) = ModuleAt(owned.table[id])
       /\ (owned.flight # <<>> /\ owned'.flight = <<>>) =>
              \E id \in DOMAIN owned'.table :
                  /\ owned'.table[id].at # owned.flight[1].at
                  /\ ModuleAt(owned'.table[id]) = ModuleAt(owned.flight[1])
       /\ owned'.borrowed # <<>> =>
              /\ owned'.borrowed.ref = FieldAddress(owned'.table[owned'.borrowed.id].at)
              /\ owned'.borrowed.module = owned'.table[owned'.borrowed.id].view.of]_vars

C23_Witness ==
    /\ owned.grown > 0
    /\ owned.borrowed # <<>>
    /\ owned.borrowed.ref.place.gen > 0
    /\ owned.borrowed.module = "ModD"

(***************************************************************************)
(* Claims about the dependency views                                       *)
(***************************************************************************)

\* the identity of the module that declares the type handle h of dep
DeclaringModule(dep, h) ==
    [address |-> dep.address_identifiers[dep.module_handles[h.module + 1].address + 1],
     name |-> dep.identifiers[dep.module_handles[h.module + 1].name + 1]]

\* the key CompiledDependencyView::new gives the type handle h of dep
ViewKey(dep, h) ==
    <<dep.identifiers[dep.module_handles[h.module + 1].name + 1],
      dep.identifiers[h.name + 1]>>

\* the type handles of dep have pairwise distinct (declaring module, name)
DistinctTypes(dep) ==
    \A i, j \in 1 .. Len(dep.data_type_handles) :
        (/\ DeclaringModule(dep, dep.data_type_handles[i]) =
                DeclaringModule(dep, dep.data_type_handles[j])
         /\ dep.data_type_handles[i].name = dep.data_type_handles[j].name) => i = j

\* C24: for a dependency whose type handles h_0 .. h_(n-1) have pairwise
\* distinct (declaring module identity, name), the view maps (declaring
\* module name of h_i, name of h_i) to i, and data_type_handle with that key
\* returns h_i.
C24_ViewTypeIndex ==
    (viewed.built /\ DistinctTypes(viewed.dep)) =>
        \A i \in 1 .. Len(viewed.dep.data_type_handles) :
            LET key == ViewKey(viewed.dep, viewed.dep.data_type_handles[i]) IN
            /\ key \in DOMAIN viewed.view.structs
            /\ viewed.view.structs[key] = i - 1
            /\ (viewed.op = "data_type_handle" /\ viewed.args = key) =>
                   (viewed.some /\ viewed.val = viewed.dep.data_type_handles[i])

\* the positions of the function handles of dep named name that dep defines
DefinedAt(dep, name) ==
    {i \in 1 .. Len(dep.function_handles) :
        /\ dep.identifiers[dep.function_handles[i].name + 1] = name
        /\ dep.function_handles[i].module = dep.self_module_handle_idx}

\* C25: function_signature(name) returns a signature exactly if the
\* dependency's function-handle pool holds a handle of that name whose module
\* is the dependency's self handle, and the signature is that of such a
\* handle, read from the dependency's signature pool; otherwise it returns
\* nothing.
C25_ViewFunctionIndex ==
    viewed.op = "function_signature" =>
        /\ ~viewed.panic
        /\ viewed.some <=> DefinedAt(viewed.dep, viewed.args[1]) # {}
        /\ viewed.some =>
               \E i \in DefinedAt(viewed.dep, viewed.args[1]) :
                   LET fh == viewed.dep.function_handles[i] IN
                   /\ fh.parameters < Len(viewed.dep.signatures)
                   /\ viewed.val =
                          [parameters |-> viewed.dep.signatures[fh.parameters + 1],
                           return_ |-> viewed.dep.signatures[fh.return_ + 1],
                           type_parameters |-> fh.type_parameters]

\* the views of the compiled modules a store may hold
ViewOfModule == [tag \in UnitModules |-> CompiledDependencyView_new(DepModule(tag))]

\* the view of the dependency the store of c holds for id
ViewOfIdent(c, id) == ViewOfModule[c.dependencies[id]]

\* the type-handle index idx, or a module-handle, address or identifier index
\* that source_struct_info follows from it, is out of range of the view's pools
OutOfRange(view, idx) ==
    \/ ~At(view.data_type_pool, idx).some
    \/ ~At(view.module_pool, At(view.data_type_pool, idx).v.module).some
    \/ LET h == At(view.data_type_pool, idx).v
           mh == At(view.module_pool, h.module).v
       IN  \/ ~At(view.address_identifiers, mh.address).some
           \/ ~At(view.identifiers, mh.name).some
           \/ ~At(view.identifiers, h.name).some

\* the type-handle index of the first named-type token reindex_tokens meets in
\* tokens, NoIdx if there is none
RECURSIVE FirstNamedType(_)
FirstNamedType(tokens) ==
    IF tokens = <<>> THEN NoIdx
    ELSE LET t == Head(tokens) IN
         IF t[1] \in {"DataType", "DataTypeInstantiation"} THEN t[2]
         ELSE IF t[1] \in {"Vector", "Reference", "MutableReference"}
                 /\ FirstNamedType(<<t[2]>>) # NoIdx
         THEN FirstNamedType(<<t[2]>>)
         ELSE FirstNamedType(Tail(tokens))

\* the type-handle indices named-type tokens are tried with
TokenIndices == 0 .. 5

\* C26: source_struct_info returns nothing for a type-handle index that is,
\* or leads to, an index out of range of the dependency's pools; re-indexing
\* a named-type token with such an index fails with DependencyMalformed and
\* leaves the Context as it was; and a function import whose signature meets
\* such a token first fails with DependencyMalformed and registers nothing.
C26_MalformedDependency ==
    [][/\ \A id \in DOMAIN ctx'.dependencies, idx \in TokenIndices :
              OutOfRange(ViewOfIdent(ctx', id), idx) =>
                  /\ ~source_struct_info(ViewOfIdent(ctx', id), idx).some
                  /\ ~source_struct_info(ViewOfIdent(ctx', id), idx).panic
                  /\ \A orig \in {<<"DataType", idx>>,
                                  <<"DataTypeInstantiation", idx, << <<"U64">> >>>>,
                                  <<"Vector", <<"Reference", <<"DataType", idx>>>>>>} :
                         reindex_signature_token(ctx', id, orig) =
                             Err(ctx', "DependencyMalformed")
       /\ (/\ last'.op = "function_handle" /\ last'.fresh
           /\ last'.args[1] \in DOMAIN ctx.modules
           /\ last'.args[1] # SELF_MODULE_NAME
           /\ ctx.modules[last'.args[1]].ident \in DOMAIN ctx.dependencies) =>
              LET view == ViewOfIdent(ctx, ctx.modules[last'.args[1]].ident)
                  sig == View_function_signature(view, last'.args[2])
              IN  (/\ sig.some
                   /\ FirstNamedType(sig.v.return_ \o sig.v.parameters) # NoIdx
                   /\ OutOfRange(view, FirstNamedType(sig.v.return_ \o sig.v.parameters)))
                  => /\ last'.err = "DependencyMalformed"
                     /\ ctx' = ctx]_vars

C26_Witness ==
    /\ last.op = "function_handle" /\ last.err = "DependencyMalformed"
    /\ last.args[2] = "j"
    /\ ctx.dependencies[ctx.modules[last.args[1]].ident] = "ModF"

(***************************************************************************)
(* Claims about labels, re-aliasing and friends                            *)
(***************************************************************************)

\* C27: within one function, label_index returns offset k-1 for the k-th
\* distinct label and the offset it returned before for a label requested
\* again, and fails only for a new label when TABLE_MAX_SIZE labels were
\* requested; build_index_remapping leaves the label table empty, so the
\* first label of the next function receives offset 0.
C27_LabelOffsetsSequential ==
    [][/\ last'.op = "label_index" =>
              IF last'.args[1] \in DOMAIN handed.offset
              THEN last'.ok /\ last'.val = handed.offset[last'.args[1]]
              ELSE IF handed.requested < TABLE_MAX_SIZE
              THEN last'.ok /\ last'.val = handed.requested
              ELSE last'.err = "TableOverflow"
       /\ last'.op = "build_index_remapping" => ctx'.labels = EmptyPool
       /\ (last'.op = "label_index" /\ last.op = "build_index_remapping") =>
              (last'.ok /\ last'.val = 0)]_vars

C27_Witness ==
    /\ handed.compiled = 1
    /\ last.op = "label_index" /\ last.args[1] = "L2" /\ last.val = 1
    /\ handed.offset = ("L3" :> 0) @@ ("L2" :> 1)

\* C28: build_index_remapping(label_to_index) returns the map that holds, for
\* every label L of label_to_index, the entry from the offset label_index
\* handed out for L in the current function to label_to_index[L], and no
\* other entry.
C28_IndexRemapping ==
    [][last'.op = "build_index_remapping" =>
          /\ last'.ok
          /\ DOMAIN last'.args[1] \subseteq DOMAIN handed.offset
          /\ DOMAIN last'.map = {handed.offset[lbl] : lbl \in DOMAIN last'.args[1]}
          /\ \A lbl \in DOMAIN last'.args[1] :
                 last'.map[handed.offset[lbl]] = last'.args[1][lbl]]_vars

\* C29: when a successful declare_import(id, A) is followed by
\* declare_import(id, B), the second call succeeds and returns the index the
\* first returned, the module-handle pool is left as it was and holds the
\* handle of id at that index, the alias of id is B, and re-indexing a type
\* that a supplied dependency refers to as owned by id is the resolution of
\* that type's name under alias B.
C29_ReAliasing ==
    [][(/\ last.op = "declare_import" /\ last.ok
        /\ last'.op = "declare_import"
        /\ last'.args[1] = last.args[1]) =>
          LET id == last'.args[1]
              B == last'.args[2]
              mh == [address |-> ctx'.address_identifiers.map[id.address],
                     name |-> ctx'.identifiers.map[id.name]]
          IN  /\ last'.ok /\ last'.val = last.val
              /\ ctx'.module_handles = ctx.module_handles
              /\ PoolContains(ctx'.module_handles, mh)
              /\ ctx'.module_handles.map[mh] = last'.val
              /\ module_alias(ctx', id) = Ok(ctx', B)
              /\ \A dep \in DOMAIN ctx'.dependencies, idx \in TokenIndices :
                     LET info == source_struct_info(ViewOfIdent(ctx', dep), idx)
                     IN  (info.some /\ info.ident = id) =>
                             reindex_data_type(ctx', dep, idx) =
                                 data_type_handle_index(
                                     ctx', [module |-> B, name |-> info.name])]_vars

\* declare_import(1::D, X), then declare_import(1::D, Y); the type 1::D::S
\* that 1::E refers to is then imported as Y::S
C29_Witness ==
    /\ nops = 2
    /\ last.op = "declare_import" /\ last.ok /\ last.args = <<IdD, "Y">>
    /\ "X" \in DOMAIN ctx.modules /\ ctx.modules["X"].ident = IdD
    /\ source_struct_info(ViewOfIdent(ctx, IdE), 0).ident = IdD
    /\ reindex_data_type(ctx, IdE, 0).ok
    /\ [module |-> "Y", name |-> "S"] \in DOMAIN reindex_data_type(ctx, IdE, 0).c.structs
    /\ [module |-> "X", name |-> "S"] \notin DOMAIN reindex_data_type(ctx, IdE, 0).c.structs

\* C30: declare_friend(id) changes nothing of the Context but the address
\* pool, which gains at most the address of id, and the identifier pool,
\* which gains at most the name of id (the module-handle pool, the alias
\* table, the module table and every other pool and table stay as they
\* were); when it succeeds it returns the module handle made of the indices
\* of that address and that name.
C30_FriendFrame ==
    [][last'.op = "declare_friend" =>
          LET id == last'.args[1] IN
          /\ \A table \in DOMAIN ctx \ {"address_identifiers", "identifiers"} :
                 ctx'[table] = ctx[table]
          /\ DOMAIN ctx' = DOMAIN ctx
          /\ ctx'.address_identifiers.fill = ctx.address_identifiers.fill
          /\ ctx'.identifiers.fill = ctx.identifiers.fill
          /\ DOMAIN ctx'.address_identifiers.map \subseteq
                 DOMAIN ctx.address_identifiers.map \cup {id.address}
          /\ DOMAIN ctx'.identifiers.map \subseteq
                 DOMAIN ctx.identifiers.map \cup {id.name}
          /\ \A a \in DOMAIN ctx.address_identifiers.map :
                 ctx'.address_identifiers.map[a] = ctx.address_identifiers.map[a]
          /\ \A n \in DOMAIN ctx.identifiers.map :
                 ctx'.identifiers.map[n] = ctx.identifiers.map[n]
          /\ IF last'.ok
             THEN /\ PoolContains(ctx'.address_identifiers, id.address)
                  /\ PoolContains(ctx'.identifiers, id.name)
                  /\ last'.handle =
                         [address |-> ctx'.address_identifiers.map[id.address],
                          name |-> ctx'.identifiers.map[id.name]]
             ELSE last'.err = "TableOverflow" /\ last'.handle = NoHandle]_vars

\* declare_friend(1::E) after an import of 1::D: the address was interned by
\* the import, the name E by the friend declaration, and the module-handle
\* pool holds the handle of 1::D only
C30_Witness ==
    /\ last.op = "declare_friend" /\ last.ok /\ last.args = <<IdE>>
    /\ IdD \in DOMAIN ctx.aliases
    /\ last.handle = [address |-> 0, name |-> 1]
    /\ DOMAIN ctx.module_handles.map = {[address |-> 0, name |-> 0]}
    /\ DOMAIN ctx.identifiers.map = {"D", "E"}

(***************************************************************************)
(* Claims about the consistency of the tables and the Dependency Store     *)
(***************************************************************************)

\* C31: in every state, every module identity id that has an alias A in
\* aliases has an entry for A in modules whose identity is id.
C31_AliasTablesAgree ==
    \A id \in DOMAIN ctx.aliases :
        /\ ctx.aliases[id] \in DOMAIN ctx.modules
        /\ ctx.modules[ctx.aliases[id]].ident = id

\* C32: in every state, also after a call that returned an error, the handle
\* of every entry of modules is in the module-handle pool and the handle of
\* every entry of structs is in the type-handle pool.
C32_RecordedHandlesInterned ==
    /\ \A alias \in DOMAIN ctx.modules :
           PoolContains(ctx.module_handles, ctx.modules[alias].handle)
    /\ \A sname \in DOMAIN ctx.structs :
           PoolContains(ctx.data_type_handles, ctx.structs[sname])

\* C33: a function_handle(m, f) call that returns an error leaves the Context,
\* every pool and every table of it, as it was before the call.
C33_FailedImportAtomic ==
    [][(last'.op = "function_handle" /\ ~last'.ok /\ last'.err # "panic") =>
           ctx' = ctx]_vars

\* idx is an index of pool m
InRange(m, idx) == 0 <= idx /\ idx < PoolLen(m)

\* every named-type token of the signature token t carries an index of the
\* type-handle pool of c
RECURSIVE TokenInRange(_, _)
TokenInRange(c, t) ==
    IF t[1] \in {"Vector", "Reference", "MutableReference"}
    THEN TokenInRange(c, t[2])
    ELSE IF t[1] = "DataType" THEN InRange(c.data_type_handles, t[2])
    ELSE IF t[1] = "DataTypeInstantiation"
    THEN /\ InRange(c.data_type_handles, t[2])
         /\ \A k \in 1 .. Len(t[3]) : TokenInRange(c, t[3][k])
    ELSE TRUE

\* C34: in every state, every module handle (of modules and of the
\* module-handle pool) has its address and name index within the address and
\* identifier pools, every type handle (of structs and of the type-handle
\* pool) its module and name index within the module-handle and identifier
\* pools, every function handle its module, name, parameter and return index
\* within the module-handle, identifier and signature pools, and every
\* named-type token of a recorded function signature and of the signature
\* pool an index within the type-handle pool.
C34_ReferentialIntegrity ==
    /\ \A mh \in {ctx.modules[alias].handle : alias \in DOMAIN ctx.modules}
                 \cup DOMAIN ctx.module_handles.map :
           /\ InRange(ctx.address_identifiers, mh.address)
           /\ InRange(ctx.identifiers, mh.name)
    /\ \A sh \in {ctx.structs[sname] : sname \in DOMAIN ctx.structs}
                 \cup DOMAIN ctx.data_type_handles.map :
           /\ InRange(ctx.module_handles, sh.module)
           /\ InRange(ctx.identifiers, sh.name)
    /\ \A m_f \in DOMAIN ctx.function_handles :
           LET fh == ctx.function_handles[m_f].handle
           IN  /\ InRange(ctx.module_handles, fh.module)
               /\ InRange(ctx.identifiers, fh.name)
               /\ InRange(ctx.signatures, fh.parameters)
               /\ InRange(ctx.signatures, fh.return_)
    /\ \A m_f \in DOMAIN ctx.function_signatures :
           LET sig == ctx.function_signatures[m_f]
           IN  \A k \in 1 .. Len(sig.return_ \o sig.parameters) :
                   TokenInRange(ctx, (sig.return_ \o sig.parameters)[k])
    /\ \A tokens \in DOMAIN ctx.signatures.map :
           \A k \in 1 .. Len(tokens) : TokenInRange(ctx, tokens[k])

\* function_handle(X, g) imported g of 1::D: its handle and its re-indexed
\* signature, with the tokens of 1::D::S and 1::E::U, are recorded
C34_Witness ==
    /\ last.op = "function_handle" /\ last.ok /\ last.fresh
    /\ last.args = <<"X", "g">>
    /\ <<"X", "g">> \in DOMAIN ctx.function_handles
    /\ <<"X", "g">> \in DOMAIN ctx.function_signatures
    /\ ctx.function_signatures[<<"X", "g">>].parameters[1][1] = "DataTypeInstantiation"
    /\ PoolLen(ctx.data_type_handles) = 2
    /\ DOMAIN ctx.structs # {}

\* C35: the type-handle pool never holds two entries with the same
\* module-handle index and the same name index, and a successful
\* data_type_handle_index of a qualified name returns the index its first
\* resolution returned.
C35_OneHandlePerType ==
    [][/\ \A h1, h2 \in DOMAIN ctx'.data_type_handles.map :
              (h1.module = h2.module /\ h1.name = h2.name) => h1 = h2
       /\ (/\ last'.op = "data_type_handle_index" /\ last'.ok
           /\ dth[last'.args[1]].first # NoIdx) =>
              last'.val = dth[last'.args[1]].first]_vars

\* C36: take_dependencies returns the whole store of the Context and leaves
\* it an empty one, changing nothing else, so that every foreign type and
\* function of an imported module that is not local yet then fails to
\* resolve with DependencyMissing; restore_dependencies puts the store it is
\* given into a Context whose store is empty, changing nothing else, and on a
\* Context whose store is not empty it stores nothing; and after
\* take_dependencies directly followed by restore_dependencies of the store
\* taken the Context is what it was before, and resolves every type and
\* function as before.
C36_StoreTransferred ==
    [][/\ last'.op = "take_dependencies" =>
              /\ last'.ok
              /\ taken'.stores = Append(taken.stores, ctx.dependencies)
              /\ DOMAIN ctx'.dependencies = {}
              /\ ctx' = [ctx EXCEPT !.dependencies = ctx'.dependencies]
              /\ \A s \in BatchQNames :
                     (s.module \in DOMAIN ctx'.modules /\ s \notin DOMAIN ctx'.structs)
                     => data_type_handle_index(ctx', s) = Err(ctx', "DependencyMissing")
              /\ \A m \in BatchAliases, f \in FunNames :
                     (/\ m \in DOMAIN ctx'.modules
                      /\ <<m, f>> \notin DOMAIN ctx'.function_handles)
                     => function_handle(ctx', m, f) = Err(ctx', "DependencyMissing")
       /\ last'.op = "restore_dependencies" =>
              IF DOMAIN ctx.dependencies = {}
              THEN /\ last'.ok
                   /\ ctx' = [ctx EXCEPT !.dependencies = last'.args[1]]
              ELSE ~last'.ok /\ ctx' = ctx
       /\ (/\ last.op = "take_dependencies"
           /\ last'.op = "restore_dependencies"
           /\ last'.args[1] = taken.before.dependencies) =>
              /\ last'.ok
              /\ ctx' = taken.before
              /\ \A s \in BatchQNames :
                     data_type_handle_index(ctx', s) =
                         data_type_handle_index(taken.before, s)
              /\ \A m \in BatchAliases, f \in FunNames :
                     function_handle(ctx', m, f) = function_handle(taken.before, m, f)]_vars

\* after an import of 1::D as X the store was taken and given back: the
\* caller holds no store, and X::S resolves again
C36_Witness ==
    /\ last.op = "restore_dependencies" /\ last.ok
    /\ taken.stores = <<>>
    /\ DOMAIN ctx.dependencies = {IdD, IdE}
    /\ ctx = taken.before
    /\ "X" \in DOMAIN ctx.modules /\ ctx.modules["X"].ident = IdD
    /\ [module |-> "X", name |-> "S"] \notin DOMAIN ctx.structs
    /\ data_type_handle_index(ctx, [module |-> "X", name |-> "S"]).ok
====
